---- MODULE Spec2Model ----
(***************************************************************************)
(* Athena: the record-merging protocol (engine/app.py), the multiplatform  *)
(* popularity normaliser (engine/multiplatform_analysis.py), the           *)
(* classifier (engine/gemini.py), the concurrent run of main() and the     *)
(* persistence sink (engine/database.py).                                  *)
(*                                                                         *)
(* A Python dict is a TLA+ function from its keys (strings) to its values; *)
(* a Python list is a sequence.  SpecMerge drives merge_data, SpecPop the  *)
(* popularity functions, SpecMulti the scoring loop, SpecGemini the        *)
(* classification loop, SpecMain the threads of main(), SpecDb the         *)
(* inserts of successive runs.                                             *)
(***************************************************************************)
EXTENDS Integers, Sequences, FiniteSets, TLC

VARIABLES
    \* ---- merge_data (engine/app.py) ----
    raw_data,        \* the Collector's list of VideoRecords
    gemini_data,     \* the Classifier's list
    multi_data,      \* the Normalizer's list
    merged_list,     \* what the last call of merge_data returned
    prev_merged,     \* what the call before it returned
    calls,           \* number of calls of merge_data so far
    \* ---- the popularity functions (engine/multiplatform_analysis.py) ----
    op,                \* the function that was called, "idle" before the call
    youtube_views,     \* calculate_popularity_score: first argument
    streaming_count,   \* calculate_popularity_score: second argument
    normalized_score,  \* calculate_popularity_score: what the call did
    spotify_data,      \* get_best_streaming_count: first argument
    deezer_data,       \* get_best_streaming_count: second argument
    best_streams,      \* get_best_streaming_count: what the call did
    video,             \* process_single_video_popularity: first argument
    spotify_results,   \* process_single_video_popularity: second argument
    deezer_results,    \* process_single_video_popularity: third argument
    score_data,        \* process_single_video_popularity: what the call did
    \* ---- run_multiplatform_analysis (engine/multiplatform_analysis.py) ----
    raw_video_data,         \* the Collector's list the run scores
    spotify_list,           \* what run_spotify_analysis returned
    deezer_list,            \* what run_deezer_analysis returned
    final_popularity_data,  \* the list built so far
    multi_pc,               \* "scoring", "returned" or the exception that left it
    \* ---- run_gemini_processing (engine/gemini.py) ----
    scraped_data,      \* the Collector's list the run classifies
    gemini_replies,    \* what the LLM call did for each video analysed so far
    final_results,     \* the list built so far
    gemini_pc,         \* "analyzing" or "returned"
    \* ---- main and its concurrent tasks (engine/app.py) ----
    main_pc,           \* the statement main() is at, or how it ended
    main_exc,          \* the exception main() is leaving with, "none" if none
    executed,          \* the steps after the join that main() has started
    n_videos,          \* len(raw_video_data)
    main_results,      \* the task results main() has taken from their futures
    future_gemini,     \* "none", "running", "returned", or the exception raised
    future_multi,
    future_spotify,
    future_deezer,
    gemini_progress,   \* videos run_gemini_processing has analysed
    spotify_progress,  \* videos run_spotify_analysis has searched
    deezer_progress,   \* videos run_deezer_analysis has searched
    multi_step,        \* the statement run_multiplatform_analysis is at
    multi_exc,         \* the exception it is leaving with, "none" if none
    multi_results,     \* the matcher results it has taken from their futures
    scored,            \* videos its loop has scored
    \* ---- insert_analysis_results (engine/database.py) ----
    data_list,          \* the merged records every run persists
    records_to_insert,  \* the payload of the last insert
    db_table,           \* the rows of the "analysis" table
    db_outcomes,        \* what each run's insert did, oldest first
    inserted_count,      \* what the last call returned
    \* ---- download.main (engine/download.py) ----
    dl_rows,   \* rows of videos the loop has taken
    downloaded_this_run,   \* completed downloads of this run
    download_calls,   \* calls of download_audio_for_video of this run
    dl_msg,   \* str(e) of the last call, <<>> if it returned
    dl_pc,   \* where main is: in the loop, or how the loop was left
    \* ---- startup: imports of app.py and the first steps of main() ----
    environment,   \* settings present: environment variables set and files that exist
    SPOTIFY_ENABLED,   \* spotify.py module flag, or "unset" before its import
    st_pc,   \* position of the program from its start
    st_exc,   \* exception that ended the program, or "none"
    st_tasks,   \* branches of the fan-out that have returned
    work_done,   \* components that issued a request
    \* ---- fan-out of main(): the branches over the shared Collector list ----
    collected,   \* the Collector's list as run_scraper returned it
    fan_raw_video_data,   \* the list object every branch is handed
    fan_gemini_results,   \* final_results of run_gemini_processing
    fan_spotify_results,   \* spotify_results of run_spotify_analysis
    fan_deezer_results,   \* deezer_results of run_deezer_analysis
    fan_popularity_data,   \* final_popularity_data of the scoring loop
    fan_cursor,   \* per loop, the index of the next video
    fan_pc,   \* "running", or "joined" once main() has both results
    \* ---- search_spotify ----
    token,   \* the access token, "" when there is none
    channel_name,   \* the channel name, a sequence of lower-case words
    responses,   \* per query, what the request to the search API gives
    queries,   \* the queries still to try, in order
    issued,   \* the queries sent so far, in order
    search_pc,   \* "called", "querying" or "returned"
    search_result   \* the return value, None or a track

varsMerge == <<raw_data, gemini_data, multi_data, merged_list, prev_merged, calls>>

varsPop == <<op, youtube_views, streaming_count, normalized_score,
             spotify_data, deezer_data, best_streams,
             video, spotify_results, deezer_results, score_data>>

varsMulti == <<raw_video_data, spotify_list, deezer_list,
               final_popularity_data, multi_pc>>

varsGemini == <<scraped_data, gemini_replies, final_results, gemini_pc>>

varsMain == <<main_pc, main_exc, executed, n_videos, main_results,
              future_gemini, future_multi, future_spotify, future_deezer,
              gemini_progress, spotify_progress, deezer_progress,
              multi_step, multi_exc, multi_results, scored>>

varsDb == <<data_list, records_to_insert, db_table, db_outcomes, inserted_count>>

varsDownload == <<dl_rows, downloaded_this_run, download_calls, dl_msg, dl_pc>>

varsStartup == <<environment, SPOTIFY_ENABLED, st_pc, st_exc, st_tasks, work_done>>

varsFanOut == <<collected, fan_raw_video_data, fan_gemini_results, fan_spotify_results, fan_deezer_results, fan_popularity_data, fan_cursor, fan_pc>>

varsSearch == <<token, channel_name, responses, queries, issued, search_pc, search_result>>

vars == <<varsMerge, varsPop, varsMulti, varsGemini, varsMain, varsDb,
         varsDownload,
         varsStartup,
         varsFanOut,
         varsSearch>>

\* ------------------------------------------------------------------ bounds

MaxVideos == 2       \* longest Collector list
MaxSecondary == 2    \* longest Classification / Popularity list
MaxCalls == 2        \* merge_data is called at most this often in one behaviour
MaxCount == 4        \* view counts, ranks and popularities range over 0..MaxCount
                     \* and over the multiples of 1000000 up to MaxCount * 1000000
MaxMatches == 2      \* longest Spotify / Deezer result list
MaxRuns == 2         \* runs that persist their records into the same table
MaxTargets == 102    \* most rows get_target_videos returns

\* ------------------------------------------------------- Python dict helpers

\* {} : the empty dict
EmptyDict == <<>>

\* d.get(k, default)
DictGet(d, k, default) == IF k \in DOMAIN d THEN d[k] ELSE default

\* {**a, **b} : the keys of both, b's value where both have the key
DictUnpack(a, b) ==
    [f \in (DOMAIN a) \cup (DOMAIN b) |-> IF f \in DOMAIN b THEN b[f] ELSE a[f]]

\* {item["video_id"]: item for item in items} : a later item replaces an
\* earlier one with the same video_id
DictByVideoId(items) ==
    LET ids == {items[i]["video_id"] : i \in DOMAIN items}
        last(k) == CHOOSE i \in DOMAIN items :
                       /\ items[i]["video_id"] = k
                       /\ \A j \in DOMAIN items : items[j]["video_id"] = k => j <= i
    IN  [k \in ids |-> items[last(k)]]

\* ------------------------------------------------------------- merge_data

\* faulty variant: the Classification overlaid last ({**video, **m_data, **g_data})
merged_entry_gemini_last(rec, gemini_dict, multi_dict) ==
    LET vid_id == rec["video_id"]
        g_data == DictGet(gemini_dict, vid_id, EmptyDict)
        m_data == DictGet(multi_dict, vid_id, EmptyDict)
    IN  DictUnpack(DictUnpack(rec, m_data), g_data)

\* merged_entry = {**video, **g_data, **m_data}
merged_entry(rec, gemini_dict, multi_dict) ==
    LET vid_id == rec["video_id"]
        g_data == DictGet(gemini_dict, vid_id, EmptyDict)
        m_data == DictGet(multi_dict, vid_id, EmptyDict)
    IN  DictUnpack(DictUnpack(rec, g_data), m_data)

\* faulty variant: a list kept across calls instead of a fresh one
merged_list_kept == merged_list

\* merged_list = []
merged_list_fresh == <<>>

\* faulty variant: the loop anchored on the Classification keys, so that a video
\* with no classification is dropped
merge_data_inner_join(raw, gemini, multi) ==
    LET gemini_dict == DictByVideoId(gemini)
        multi_dict == DictByVideoId(multi)
        kept == SelectSeq(raw, LAMBDA rec : rec["video_id"] \in DOMAIN gemini_dict)
    IN  [i \in 1..Len(kept) |-> merged_entry(kept[i], gemini_dict, multi_dict)]

\* faulty variant: each entry put at the head of the list (insert(0, ...))
merge_data_prepend(raw, gemini, multi) ==
    LET gemini_dict == DictByVideoId(gemini)
        multi_dict == DictByVideoId(multi)
        n == Len(raw)
    IN  [i \in 1..n |-> merged_entry(raw[n + 1 - i], gemini_dict, multi_dict)]

\* merge_data(raw_data, gemini_data, multi_data): one entry per element of
\* raw_data, appended in raw_data's order
merge_data(raw, gemini, multi) ==
    LET gemini_dict == DictByVideoId(gemini)
        multi_dict == DictByVideoId(multi)
    IN  merged_list_fresh \o
        [i \in 1..Len(raw) |-> merged_entry(raw[i], gemini_dict, multi_dict)]

\* ------------------------------------------------- inputs of merge_data

VideoIds == {"v1", "v2"}

\* a VideoRecord as run_scraper builds it (the fields the merge can collide on)
VideoRecord(id) ==
    [f \in {"video_id", "title", "youtube_views"} |->
        CASE f = "video_id" -> id
          [] f = "title" -> "raw_title"
          [] f = "youtube_views" -> "raw_views"]

\* a ClassificationRecord: what the LLM's JSON holds; it may repeat fields of
\* the prompt
ClassificationRecords ==
    { [f \in {"video_id", "sega_genre"} |->
          IF f = "video_id" THEN id ELSE "gemini_genre"] : id \in VideoIds }
    \cup
    { [f \in {"video_id", "sega_genre", "title", "youtube_views"} |->
          CASE f = "video_id" -> id
            [] f = "sega_genre" -> "gemini_genre"
            [] f = "title" -> "gemini_title"
            [] f = "youtube_views" -> "gemini_views"] : id \in VideoIds }

\* a PopularityRecord
PopularityRecords ==
    { [f \in {"video_id", "youtube_views", "popularity_flag"} |->
          CASE f = "video_id" -> id
            [] f = "youtube_views" -> "multi_views"
            [] f = "popularity_flag" -> "multi_flag"] : id \in VideoIds }
    \cup
    { [f \in {"video_id", "popularity_flag", "sega_genre"} |->
          CASE f = "video_id" -> id
            [] f = "popularity_flag" -> "multi_flag"
            [] f = "sega_genre" -> "multi_genre"] : id \in VideoIds }

SeqsUpTo(S, n) == UNION {[1..k -> S] : k \in 0..n}

\* merged_list before the first call
NoOutput == <<>>

\* ---------------------------------------------------------- Python values

\* A value is an int, a str (a sequence of one-character strings) or None;
\* or a float (the fraction n / d), a dict or a list.
PyInt(i) == [t |-> "int", n |-> i, s |-> <<>>]
PyStr(chars) == [t |-> "str", n |-> 0, s |-> chars]
PyNone == [t |-> "none", n |-> 0, s |-> <<>>]
PyFloat(x) == [t |-> "float", n |-> x.num, s |-> <<>>, d |-> x.den]
PyDict(fields) == [t |-> "dict", items |-> fields]
PyList(elements) == [t |-> "list", elems |-> elements]

\* bool(x): None, 0, 0.0, "", {} and [] are false
Truthy(x) ==
    CASE x.t = "none" -> FALSE
      [] x.t \in {"int", "float"} -> x.n # 0
      [] x.t = "str" -> x.s # <<>>
      [] x.t = "dict" -> x.items # <<>>
      [] x.t = "list" -> x.elems # <<>>

\* What a call did: it returned val, or it raised exc.
Returned(v) == [exc |-> "none", val |-> v]
Raised(e) == [exc |-> e, val |-> <<>>]
NotCalled == [exc |-> "not called", val |-> <<>>]

Digits == <<"0", "1", "2", "3", "4", "5", "6", "7", "8", "9">>

IsDigit(c) == \E d \in 1..10 : Digits[d] = c

DigitValue(c) == (CHOOSE d \in 1..10 : Digits[d] = c) - 1

RECURSIVE StripLeft(_)
StripLeft(chars) ==
    IF chars # <<>> /\ Head(chars) = " " THEN StripLeft(Tail(chars)) ELSE chars

RECURSIVE StripRight(_)
StripRight(chars) ==
    IF chars # <<>> /\ chars[Len(chars)] = " "
    THEN StripRight(SubSeq(chars, 1, Len(chars) - 1))
    ELSE chars

RECURSIVE DigitsValue(_)
DigitsValue(ds) ==
    IF ds = <<>> THEN 0
    ELSE DigitsValue(SubSeq(ds, 1, Len(ds) - 1)) * 10 + DigitValue(ds[Len(ds)])

\* int(str): surrounding blanks stripped, an optional sign, then one or more
\* decimal digits; anything else is a ValueError
ParseInt(chars) ==
    LET body == StripRight(StripLeft(chars))
        signed == body # <<>> /\ Head(body) \in {"+", "-"}
        ds == IF signed THEN Tail(body) ELSE body
        wellFormed == ds # <<>> /\ \A i \in DOMAIN ds : IsDigit(ds[i])
    IN  IF ~wellFormed THEN Raised("ValueError")
        ELSE IF signed /\ Head(body) = "-" THEN Returned(0 - DigitsValue(ds))
        ELSE Returned(DigitsValue(ds))

\* int(x): an int is itself, a str is parsed, a float is truncated towards
\* zero, None (or a dict, or a list) is a TypeError
int(x) ==
    CASE x.t = "int" -> Returned(x.n)
      [] x.t = "str" -> ParseInt(x.s)
      [] x.t = "float" -> Returned(IF x.n >= 0 THEN x.n \div x.d
                                   ELSE 0 - ((0 - x.n) \div x.d))
      [] OTHER -> Raised("TypeError")

\* str(n) of a natural number: its decimal digits
RECURSIVE IntToStr(_)
IntToStr(i) ==
    IF i < 10 THEN <<Digits[i + 1]>>
    ELSE IntToStr(i \div 10) \o <<Digits[(i % 10) + 1]>>

\* A float is held exactly: a fraction in lowest terms with den > 0.  The
\* quotient of two ints below 2^53 and the float nearest to it compare alike
\* with 0.0, 0.5 and 1.0.
Abs(i) == IF i < 0 THEN 0 - i ELSE i

RECURSIVE GCD(_, _)
GCD(a, b) == IF b = 0 THEN a ELSE GCD(b, a % b)

\* a / b for ints, b # 0
Float(a, b) ==
    LET g == GCD(Abs(a), Abs(b))
        sign == IF b < 0 THEN 0 - 1 ELSE 1
    IN  [num |-> (sign * a) \div g, den |-> (sign * b) \div g]

Zero == Float(0, 1)
One == Float(1, 1)
Half == Float(1, 2)

\* x >= y
FloatGE(x, y) == x.num * y.den >= y.num * x.den

\* round(x, 4): to the nearest multiple of 0.0001, a tie to the even one
Round4(x) ==
    LET scaled == x.num * 10000
        q == scaled \div x.den
        r == scaled % x.den
        up == (2 * r > x.den) \/ (2 * r = x.den /\ q % 2 = 1)
    IN  Float(IF up THEN q + 1 ELSE q, 10000)

Min(a, b) == IF a <= b THEN a ELSE b
Max(a, b) == IF a >= b THEN a ELSE b

RECURSIVE Pow10(_)
Pow10(k) == IF k = 0 THEN 1 ELSE 10 * Pow10(k - 1)

\* float(str) for plain decimal text: surrounding blanks stripped, an
\* optional sign, digits with at most one point and at least one digit;
\* anything else is a ValueError.  (Exponents, "inf", "nan" and underscores
\* are not among the texts used here.)
ParseFloat(chars) ==
    LET body == StripRight(StripLeft(chars))
        signed == body # <<>> /\ Head(body) \in {"+", "-"}
        ds == IF signed THEN Tail(body) ELSE body
        points == {i \in DOMAIN ds : ds[i] = "."}
        wellFormed == /\ Cardinality(points) <= 1
                      /\ \A i \in DOMAIN ds \ points : IsDigit(ds[i])
                      /\ Len(ds) > Cardinality(points)
        cut == IF points = {} THEN Len(ds) + 1 ELSE CHOOSE i \in points : TRUE
        whole == SubSeq(ds, 1, cut - 1)
        frac == SubSeq(ds, cut + 1, Len(ds))
        magnitude == DigitsValue(whole) * Pow10(Len(frac)) + DigitsValue(frac)
    IN  IF ~wellFormed THEN Raised("ValueError")
        ELSE IF signed /\ Head(body) = "-"
        THEN Returned(Float(0 - magnitude, Pow10(Len(frac))))
        ELSE Returned(Float(magnitude, Pow10(Len(frac))))

\* float(x): a float is itself, an int is converted, a str is parsed, None
\* (or a dict, or a list) is a TypeError
float(x) ==
    CASE x.t = "float" -> Returned([num |-> x.n, den |-> x.d])
      [] x.t = "int" -> Returned(Float(x.n, 1))
      [] x.t = "str" -> ParseFloat(x.s)
      [] OTHER -> Raised("TypeError")

\* ------------------------------------------ calculate_popularity_score

\* faulty variant: the both-zero test left out
calculate_popularity_score_no_both_zero(views_arg, streams_arg) ==
    LET v == int(views_arg)
        st == int(streams_arg)
    IN  IF v.exc = "ValueError" THEN Returned(Zero)
        ELSE IF v.exc # "none" THEN Raised(v.exc)
        ELSE IF st.exc = "ValueError" THEN Returned(Zero)
        ELSE IF st.exc # "none" THEN Raised(st.exc)
        ELSE IF v.val = 0 \/ st.val = 0 THEN Returned(Zero)
        ELSE Returned(Float(Min(v.val, st.val), Max(v.val, st.val)))

\* faulty variant: "or" in the first test, so that one zero count already gives 1.0
calculate_popularity_score_or_first(views_arg, streams_arg) ==
    LET v == int(views_arg)
        st == int(streams_arg)
    IN  IF v.exc = "ValueError" THEN Returned(Zero)
        ELSE IF v.exc # "none" THEN Raised(v.exc)
        ELSE IF st.exc = "ValueError" THEN Returned(Zero)
        ELSE IF st.exc # "none" THEN Raised(st.exc)
        ELSE IF v.val = 0 \/ st.val = 0 THEN Returned(One)
        ELSE Returned(Float(Min(v.val, st.val), Max(v.val, st.val)))

\* faulty variant: views / streams instead of min / max
calculate_popularity_score_plain_ratio(views_arg, streams_arg) ==
    LET v == int(views_arg)
        st == int(streams_arg)
    IN  IF v.exc = "ValueError" THEN Returned(Zero)
        ELSE IF v.exc # "none" THEN Raised(v.exc)
        ELSE IF st.exc = "ValueError" THEN Returned(Zero)
        ELSE IF st.exc # "none" THEN Raised(st.exc)
        ELSE IF v.val = 0 /\ st.val = 0 THEN Returned(One)
        ELSE IF v.val = 0 \/ st.val = 0 THEN Returned(Zero)
        ELSE Returned(Float(v.val, st.val))

\* faulty variant: max / min instead of min / max
calculate_popularity_score_max_over_min(views_arg, streams_arg) ==
    LET v == int(views_arg)
        st == int(streams_arg)
    IN  IF v.exc = "ValueError" THEN Returned(Zero)
        ELSE IF v.exc # "none" THEN Raised(v.exc)
        ELSE IF st.exc = "ValueError" THEN Returned(Zero)
        ELSE IF st.exc # "none" THEN Raised(st.exc)
        ELSE IF v.val = 0 /\ st.val = 0 THEN Returned(One)
        ELSE IF v.val = 0 \/ st.val = 0 THEN Returned(Zero)
        ELSE Returned(Float(Max(v.val, st.val), Min(v.val, st.val)))

\* calculate_popularity_score(youtube_views, streaming_count): int() of the
\* first argument, then of the second; a ValueError of either returns 0.0,
\* any other exception leaves the function
calculate_popularity_score(views_arg, streams_arg) ==
    LET v == int(views_arg)
        st == int(streams_arg)
    IN  IF v.exc = "ValueError" THEN Returned(Zero)
        ELSE IF v.exc # "none" THEN Raised(v.exc)
        ELSE IF st.exc = "ValueError" THEN Returned(Zero)
        ELSE IF st.exc # "none" THEN Raised(st.exc)
        ELSE IF v.val = 0 /\ st.val = 0 THEN Returned(One)
        ELSE IF v.val = 0 \/ st.val = 0 THEN Returned(Zero)
        ELSE Returned(Float(Min(v.val, st.val), Max(v.val, st.val)))

\* -------------------------------------------- get_best_streaming_count

\* the Spotify popularity is multiplied by this
SpotifyScale == 1000000

\* faulty variant: the smaller of the two counts when both are positive
get_best_streaming_count_min(sp_data, dz_data) ==
    LET p == int(DictGet(sp_data, "popularity", PyInt(0)))
        r == int(DictGet(dz_data, "rank", PyInt(0)))
    IN  IF p.exc # "none" THEN Raised(p.exc)
        ELSE IF r.exc # "none" THEN Raised(r.exc)
        ELSE LET spotify_count == p.val * SpotifyScale
                 deezer_count == r.val
             IN  IF spotify_count > 0 /\ deezer_count > 0
                 THEN Returned([count |-> Min(spotify_count, deezer_count),
                                platform |-> "Combined"])
                 ELSE IF spotify_count > 0
                 THEN Returned([count |-> spotify_count, platform |-> "Spotify"])
                 ELSE IF deezer_count > 0
                 THEN Returned([count |-> deezer_count, platform |-> "Deezer"])
                 ELSE Returned([count |-> 0, platform |-> "None"])

\* faulty variant: ">= 0" in the Spotify-only test
get_best_streaming_count_ge(sp_data, dz_data) ==
    LET p == int(DictGet(sp_data, "popularity", PyInt(0)))
        r == int(DictGet(dz_data, "rank", PyInt(0)))
    IN  IF p.exc # "none" THEN Raised(p.exc)
        ELSE IF r.exc # "none" THEN Raised(r.exc)
        ELSE LET spotify_count == p.val * SpotifyScale
                 deezer_count == r.val
             IN  IF spotify_count > 0 /\ deezer_count > 0
                 THEN Returned([count |-> Max(spotify_count, deezer_count),
                                platform |-> "Combined"])
                 ELSE IF spotify_count >= 0
                 THEN Returned([count |-> spotify_count, platform |-> "Spotify"])
                 ELSE IF deezer_count > 0
                 THEN Returned([count |-> deezer_count, platform |-> "Deezer"])
                 ELSE Returned([count |-> 0, platform |-> "None"])

\* get_best_streaming_count(spotify_data, deezer_data): returns
\* (count, platform); an exception of either int() leaves the function
get_best_streaming_count(sp_data, dz_data) ==
    LET p == int(DictGet(sp_data, "popularity", PyInt(0)))
        r == int(DictGet(dz_data, "rank", PyInt(0)))
    IN  IF p.exc # "none" THEN Raised(p.exc)
        ELSE IF r.exc # "none" THEN Raised(r.exc)
        ELSE LET spotify_count == p.val * SpotifyScale
                 deezer_count == r.val
             IN  IF spotify_count > 0 /\ deezer_count > 0
                 THEN Returned([count |-> Max(spotify_count, deezer_count),
                                platform |-> "Combined"])
                 ELSE IF spotify_count > 0
                 THEN Returned([count |-> spotify_count, platform |-> "Spotify"])
                 ELSE IF deezer_count > 0
                 THEN Returned([count |-> deezer_count, platform |-> "Deezer"])
                 ELSE Returned([count |-> 0, platform |-> "None"])

\* ------------------------------------- process_single_video_popularity

\* video.get("views", "0")
ViewsOf(v) == DictGet(v, "views", PyStr(<<"0">>))

\* faulty variant: the first entry of the list, whatever its id
MatchData_first(results, video_id, key) ==
    IF results = <<>> THEN EmptyDict ELSE results[1][key]

\* next((item for item in results if item['youtube_video_id'] == video_id),
\* None), then item[key] if item else {}
MatchData(results, video_id, key) ==
    LET hits == {i \in DOMAIN results : results[i]["youtube_video_id"] = video_id}
    IN  IF hits = {} THEN EmptyDict
        ELSE results[CHOOSE i \in hits : \A j \in hits : i <= j][key]

\* faulty variant: "> 0.5"
final_score_flag_strict(score) == IF FloatGE(score, Half) /\ score # Half THEN 1 ELSE 0

\* final_score_flag = 1 if normalized_score >= 0.5 else 0
final_score_flag(score) == IF FloatGE(score, Half) THEN 1 ELSE 0

\* the call of get_best_streaming_count in process_single_video_popularity
BestOf(v, sp_results, dz_results) ==
    get_best_streaming_count(MatchData(sp_results, v["video_id"], "spotify_data"),
                             MatchData(dz_results, v["video_id"], "deezer_data"))

\* the call of calculate_popularity_score in process_single_video_popularity
ScoreOf(v, best) == calculate_popularity_score(ViewsOf(v), PyInt(best.val.count))

\* process_single_video_popularity(video, spotify_results, deezer_results)
process_single_video_popularity(v, sp_results, dz_results) ==
    LET best == BestOf(v, sp_results, dz_results)
    IN  IF best.exc # "none" THEN Raised(best.exc)
        ELSE LET score == ScoreOf(v, best)
             IN  IF score.exc # "none" THEN Raised(score.exc)
                 ELSE Returned(
                     [video_id |-> v["video_id"],
                      youtube_views |-> ViewsOf(v),
                      streaming_count_used |-> best.val.count,
                      streaming_platform_used |-> best.val.platform,
                      normalized_score |-> Round4(score.val),
                      popularity_flag |-> final_score_flag(score.val)])

\* ------------------------------------ inputs of the popularity functions

Counts == (0..MaxCount) \cup {k * 1000000 : k \in 1..MaxCount}

\* strings that are no plain decimal numeral: "", "abc", "1.5", " 2 ", "-2",
\* "+2", "00", "-0"
OddStrings ==
    { <<>>, <<"a", "b", "c">>, <<"1", ".", "5">>, <<" ", "2", " ">>,
      <<"-", "2">>, <<"+", "2">>, <<"0", "0">>, <<"-", "0">> }

\* the string form of a view count as the platform gives it, or None
ViewValues ==
    {PyStr(IntToStr(i)) : i \in Counts} \cup {PyStr(chars) : chars \in OddStrings}
        \cup {PyNone}

\* arguments of calculate_popularity_score
ScoreArgs == ViewValues \cup {PyInt(i) : i \in Counts \cup {0 - 2}}

\* a StreamingMatch of Spotify ({} when there is none): popularity is 0..100,
\* or null in the payload
SpotifyDatas ==
    {EmptyDict} \cup
    {[popularity |-> p] :
        p \in {PyInt(i) : i \in ((0 - 1)..MaxCount) \cup {80, 100}} \cup {PyNone}}

\* a StreamingMatch of Deezer ({} when there is none): rank is an unbounded
\* int, or null in the payload
DeezerDatas ==
    {EmptyDict} \cup
    {[rank |-> r] :
        r \in {PyInt(i) : i \in Counts \cup {0 - 1, 50000000}} \cup {PyNone}}

\* the video process_single_video_popularity is called for, with and without
\* a "views" field; 999950 views are just under half of the 2000000 streams
\* of a Spotify popularity of 2
Videos ==
    {[video_id |-> "v1", views |-> x] :
        x \in ViewValues \cup {PyStr(IntToStr(999950))}}
    \cup {[video_id |-> "v1"]}

\* entries of run_spotify_analysis's result list: matches of the video and a
\* match of another video
SpotifyEntries ==
    {[youtube_video_id |-> "v1", spotify_data |-> [popularity |-> p]] :
        p \in {PyInt(1), PyInt(2), PyNone}}
    \cup {[youtube_video_id |-> "v2", spotify_data |-> [popularity |-> PyInt(100)]]}

\* entries of run_deezer_analysis's result list
DeezerEntries ==
    {[youtube_video_id |-> "v1", deezer_data |-> [rank |-> r]] :
        r \in {PyInt(2), PyInt(3000000), PyNone}}
    \cup {[youtube_video_id |-> "v2", deezer_data |-> [rank |-> PyInt(50000000)]]}

\* the variables of the other specification, at rest
PopIdle ==
    /\ op = "idle"
    /\ youtube_views = PyNone
    /\ streaming_count = PyNone
    /\ normalized_score = NotCalled
    /\ spotify_data = EmptyDict
    /\ deezer_data = EmptyDict
    /\ best_streams = NotCalled
    /\ video = EmptyDict
    /\ spotify_results = <<>>
    /\ deezer_results = <<>>
    /\ score_data = NotCalled

MergeIdle ==
    /\ raw_data = <<>>
    /\ gemini_data = <<>>
    /\ multi_data = <<>>
    /\ merged_list = <<>>
    /\ prev_merged = <<>>
    /\ calls = 0

MultiIdle ==
    /\ raw_video_data = <<>>
    /\ spotify_list = <<>>
    /\ deezer_list = <<>>
    /\ final_popularity_data = <<>>
    /\ multi_pc = "idle"

GeminiIdle ==
    /\ scraped_data = <<>>
    /\ gemini_replies = <<>>
    /\ final_results = <<>>
    /\ gemini_pc = "idle"

MainIdle ==
    /\ main_pc = "idle"
    /\ main_exc = "none"
    /\ executed = {}
    /\ n_videos = 0
    /\ main_results = {}
    /\ future_gemini = "none"
    /\ future_multi = "none"
    /\ future_spotify = "none"
    /\ future_deezer = "none"
    /\ gemini_progress = 0
    /\ spotify_progress = 0
    /\ deezer_progress = 0
    /\ multi_step = "idle"
    /\ multi_exc = "none"
    /\ multi_results = {}
    /\ scored = 0

DbIdle ==
    /\ data_list = <<>>
    /\ records_to_insert = <<>>
    /\ db_table = <<>>
    /\ db_outcomes = <<>>
    /\ inserted_count = 0

DownloadIdle ==
    /\ dl_rows = 0
    /\ downloaded_this_run = 0
    /\ download_calls = 0
    /\ dl_msg = <<>>
    /\ dl_pc = "idle"

StartupIdle ==
    /\ environment = {}
    /\ SPOTIFY_ENABLED = "unset"
    /\ st_pc = "idle"
    /\ st_exc = "none"
    /\ st_tasks = {}
    /\ work_done = {}

FanOutIdle ==
    /\ collected = <<>>
    /\ fan_raw_video_data = <<>>
    /\ fan_gemini_results = <<>>
    /\ fan_spotify_results = <<>>
    /\ fan_deezer_results = <<>>
    /\ fan_popularity_data = <<>>
    /\ fan_cursor = <<>>
    /\ fan_pc = "idle"

SearchIdle ==
    /\ token = ""
    /\ channel_name = <<>>
    /\ responses = <<>>
    /\ queries = <<>>
    /\ issued = <<>>
    /\ search_pc = "idle"
    /\ search_result = "unset"

\* ------------------------------------------------------------- SpecMerge

InitMerge ==
    /\ raw_data \in SeqsUpTo({VideoRecord(id) : id \in VideoIds}, MaxVideos)
    /\ gemini_data \in SeqsUpTo(ClassificationRecords, MaxSecondary)
    /\ multi_data \in SeqsUpTo(PopularityRecords, MaxSecondary)
    /\ merged_list = NoOutput
    /\ prev_merged = NoOutput
    /\ calls = 0
    /\ PopIdle /\ MultiIdle /\ GeminiIdle /\ MainIdle /\ DbIdle /\ DownloadIdle /\ StartupIdle /\ FanOutIdle /\ SearchIdle

\* final_analyzed_data = merge_data(raw_video_data, gemini_results,
\* multiplatform_results)
Merge ==
    /\ calls < MaxCalls
    /\ merged_list' = merge_data(raw_data, gemini_data, multi_data)
    /\ prev_merged' = merged_list
    /\ calls' = calls + 1
    /\ UNCHANGED <<raw_data, gemini_data, multi_data>>
    /\ UNCHANGED <<varsPop, varsMulti, varsGemini, varsMain, varsDb, varsDownload, varsStartup, varsFanOut, varsSearch>>

NextMerge == Merge

SpecMerge == InitMerge /\ [][NextMerge]_vars

\* --------------------------------------------------------------- SpecPop

InitPop == MergeIdle /\ PopIdle /\ MultiIdle /\ GeminiIdle /\ MainIdle /\ DbIdle /\ DownloadIdle /\ StartupIdle /\ FanOutIdle /\ SearchIdle

\* a call calculate_popularity_score(a, b)
CalculatePopularityScore ==
    /\ op = "idle"
    /\ \E a \in ScoreArgs, b \in ScoreArgs :
           /\ youtube_views' = a
           /\ streaming_count' = b
           /\ normalized_score' = calculate_popularity_score(a, b)
    /\ op' = "calculate_popularity_score"
    /\ UNCHANGED <<spotify_data, deezer_data, best_streams,
                   video, spotify_results, deezer_results, score_data>>
    /\ UNCHANGED <<varsMerge, varsMulti, varsGemini, varsMain, varsDb, varsDownload, varsStartup, varsFanOut, varsSearch>>

\* a call get_best_streaming_count(a, b)
GetBestStreamingCount ==
    /\ op = "idle"
    /\ \E a \in SpotifyDatas, b \in DeezerDatas :
           /\ spotify_data' = a
           /\ deezer_data' = b
           /\ best_streams' = get_best_streaming_count(a, b)
    /\ op' = "get_best_streaming_count"
    /\ UNCHANGED <<youtube_views, streaming_count, normalized_score,
                   video, spotify_results, deezer_results, score_data>>
    /\ UNCHANGED <<varsMerge, varsMulti, varsGemini, varsMain, varsDb, varsDownload, varsStartup, varsFanOut, varsSearch>>

\* a call process_single_video_popularity(v, sp, dz), with the calls it makes
ProcessSingleVideoPopularity ==
    /\ op = "idle"
    /\ \E v \in Videos,
          sp \in SeqsUpTo(SpotifyEntries, MaxMatches),
          dz \in SeqsUpTo(DeezerEntries, MaxMatches) :
           LET best == BestOf(v, sp, dz) IN
           /\ video' = v
           /\ spotify_results' = sp
           /\ deezer_results' = dz
           /\ spotify_data' = MatchData(sp, v["video_id"], "spotify_data")
           /\ deezer_data' = MatchData(dz, v["video_id"], "deezer_data")
           /\ best_streams' = best
           /\ youtube_views' = ViewsOf(v)
           /\ IF best.exc = "none"
              THEN /\ streaming_count' = PyInt(best.val.count)
                   /\ normalized_score' = ScoreOf(v, best)
              ELSE UNCHANGED <<streaming_count, normalized_score>>
           /\ score_data' = process_single_video_popularity(v, sp, dz)
    /\ op' = "process_single_video_popularity"
    /\ UNCHANGED <<varsMerge, varsMulti, varsGemini, varsMain, varsDb, varsDownload, varsStartup, varsFanOut, varsSearch>>

NextPop ==
    \/ CalculatePopularityScore
    \/ GetBestStreamingCount
    \/ ProcessSingleVideoPopularity

SpecPop == InitPop /\ [][NextPop]_vars

\* ------------------------------------------------------------- SpecMulti
\* run_multiplatform_analysis from the point where both matcher jobs have
\* been joined: the scoring loop over raw_video_data.

\* the Collector's records: "views" is the platform's string, which
\* run_scraper has passed through int() before it appends the record
MultiVideos ==
    { [video_id |-> "v1", views |-> PyStr(IntToStr(2000000))],
      [video_id |-> "v1", views |-> PyStr(<<"0">>)],
      [video_id |-> "v2", views |-> PyStr(<<"0">>)] }

\* entries of run_spotify_analysis's list: popularity is a number, or null
MultiSpotifyEntries ==
    { [youtube_video_id |-> "v1", spotify_data |-> [popularity |-> PyInt(1)]],
      [youtube_video_id |-> "v1", spotify_data |-> [popularity |-> PyNone]],
      [youtube_video_id |-> "v2", spotify_data |-> [popularity |-> PyInt(2)]] }

\* entries of run_deezer_analysis's list: rank is a number, or null
MultiDeezerEntries ==
    { [youtube_video_id |-> "v1", deezer_data |-> [rank |-> PyInt(3000000)]],
      [youtube_video_id |-> "v2", deezer_data |-> [rank |-> PyInt(4)]],
      [youtube_video_id |-> "v2", deezer_data |-> [rank |-> PyNone]] }

InitMulti ==
    /\ raw_video_data \in SeqsUpTo(MultiVideos, MaxVideos)
    /\ spotify_list \in SeqsUpTo(MultiSpotifyEntries, MaxMatches)
    /\ deezer_list \in SeqsUpTo(MultiDeezerEntries, MaxMatches)
    /\ final_popularity_data = <<>>
    /\ multi_pc = "scoring"
    /\ MergeIdle /\ PopIdle /\ GeminiIdle /\ MainIdle /\ DbIdle /\ DownloadIdle /\ StartupIdle /\ FanOutIdle /\ SearchIdle

\* one iteration of "for video in raw_video_data": the call of
\* process_single_video_popularity and the append; an exception of the call
\* leaves run_multiplatform_analysis
ScoreVideo ==
    /\ multi_pc = "scoring"
    /\ Len(final_popularity_data) < Len(raw_video_data)
    /\ LET v == raw_video_data[Len(final_popularity_data) + 1]
           res == process_single_video_popularity(v, spotify_list, deezer_list)
       IN  IF res.exc = "none"
           THEN /\ final_popularity_data' = Append(final_popularity_data, res.val)
                /\ UNCHANGED multi_pc
           ELSE /\ multi_pc' = res.exc
                /\ UNCHANGED final_popularity_data
    /\ UNCHANGED <<raw_video_data, spotify_list, deezer_list>>
    /\ UNCHANGED <<varsMerge, varsPop, varsGemini, varsMain, varsDb, varsDownload, varsStartup, varsFanOut, varsSearch>>

\* return final_popularity_data
ReturnPopularityData ==
    /\ multi_pc = "scoring"
    /\ Len(final_popularity_data) = Len(raw_video_data)
    /\ multi_pc' = "returned"
    /\ UNCHANGED <<raw_video_data, spotify_list, deezer_list, final_popularity_data>>
    /\ UNCHANGED <<varsMerge, varsPop, varsGemini, varsMain, varsDb, varsDownload, varsStartup, varsFanOut, varsSearch>>

NextMulti ==
    \/ ScoreVideo
    \/ ReturnPopularityData

SpecMulti == InitMulti /\ [][NextMulti]_vars

\* ------------------------------------------------------------ SpecGemini
\* analyze_single_video and the loop of run_gemini_processing.  A dict is
\* PyDict(fields), a list is PyList(elements); "video_id" holds the id, every
\* other key holds a Python value.

UnknownGenre == PyStr(<<"U", "n", "k", "n", "o", "w", "n">>)
RootsSega == PyStr(<<"R", "o", "o", "t", "s", " ", "S", "e", "g", "a">>)
NotSega == PyStr(<<"N", "o", "t", " ", "S", "e", "g", "a">>)
FancySega == PyStr(<<"F", "a", "n", "c", "y", " ", "S", "e", "g", "a">>)
ErrorLabel == PyStr(<<"E", "r", "r", "o", "r">>)
LowRating == PyStr(<<"L", "o", "w">>)

\* faulty variant: the record src/gemini.py returns on failure
DefaultAnalysis_legacy(video_id) ==
    PyDict([video_id |-> video_id,
            sentiment_flag |-> PyInt(0),
            emotional_genre |-> ErrorLabel,
            sega_genre |-> ErrorLabel])

\* the record returned from "except Exception"
DefaultAnalysis(video_id) ==
    PyDict([video_id |-> video_id,
            sentiment_flag |-> PyInt(0),
            emotional_genre |-> ErrorLabel,
            sega_genre |-> NotSega,
            gemini_confidence_score |-> PyFloat(Zero),
            comment_density_rating |-> LowRating])

\* the record returned for an empty list
EmptyListAnalysis(video_id) ==
    PyDict([video_id |-> video_id,
            sentiment_flag |-> PyInt(0),
            emotional_genre |-> ErrorLabel,
            sega_genre |-> NotSega,
            gemini_confidence_score |-> PyFloat(Zero),
            comment_density_rating |-> LowRating])

\* the safety check on a dict: sega_genre "Unknown", missing or false is
\* forced to "Roots Sega"
CoerceSegaGenre(data) ==
    LET g == DictGet(data.items, "sega_genre", PyNone)
    IN  IF g = UnknownGenre \/ ~Truthy(g)
        THEN PyDict(DictUnpack(data.items, [sega_genre |-> RootsSega]))
        ELSE data

\* analyze_single_video(video_id, title, comments), given what the LLM call
\* did: reply is Raised(e) when generate_content raised, else
\* Returned(what json.loads(response.text) did)
analyze_single_video(video_id, reply) ==
    IF reply.exc # "none" THEN DefaultAnalysis(video_id)
    ELSE IF reply.val.exc # "none" THEN DefaultAnalysis(video_id)
    ELSE LET data == reply.val.val
         IN  IF data.t = "list"
             THEN IF Len(data.elems) > 0 THEN data.elems[1]
                  ELSE EmptyListAnalysis(video_id)
             ELSE IF data.t # "dict" THEN DefaultAnalysis(video_id)
             ELSE CoerceSegaGenre(data)

\* the JSON objects the LLM answers with: the video's id echoed or left
\* out, sega_genre a label, "Unknown", "", null or left out
GeminiObjects ==
    LET genres == {FancySega, UnknownGenre, PyStr(<<>>), PyNone}
    IN  {PyDict([video_id |-> "v1", sentiment_flag |-> PyInt(1), sega_genre |-> g]) :
            g \in genres}
        \cup {PyDict([sentiment_flag |-> PyInt(1), sega_genre |-> g]) : g \in genres}
        \cup {PyDict([video_id |-> "v1", sentiment_flag |-> PyInt(1)]),
              PyDict([sentiment_flag |-> PyInt(1)])}

\* what json.loads can give: an object, a list (empty, of one object, of a
\* number, of two objects) or a bare number or null
GeminiData ==
    GeminiObjects
    \cup {PyList(<<>>), PyList(<<PyInt(1)>>), PyInt(1), PyNone}
    \cup {PyList(<<o>>) : o \in GeminiObjects}
    \cup {PyList(<<o, PyDict([video_id |-> "v2", sega_genre |-> FancySega])>>) :
            o \in {PyDict([video_id |-> "v1", sega_genre |-> UnknownGenre])}}

\* what the LLM call can do
GeminiReplies ==
    {Raised("ClientError"), Returned(Raised("JSONDecodeError"))}
    \cup {Returned(Returned(data)) : data \in GeminiData}

\* a record of the Collector's list
ScrapedVideo(id) == [video_id |-> id, title |-> "raw_title", comments |-> <<"c">>]

InitGemini ==
    /\ scraped_data \in SeqsUpTo({ScrapedVideo(id) : id \in VideoIds}, MaxVideos)
    /\ gemini_replies = <<>>
    /\ final_results = <<>>
    /\ gemini_pc = "analyzing"
    /\ MergeIdle /\ PopIdle /\ MultiIdle /\ MainIdle /\ DbIdle /\ DownloadIdle /\ StartupIdle /\ FanOutIdle /\ SearchIdle

\* one iteration of "for video in scraped_data": the call of
\* analyze_single_video and the append
AnalyzeVideo ==
    /\ gemini_pc = "analyzing"
    /\ Len(final_results) < Len(scraped_data)
    /\ \E reply \in GeminiReplies :
           LET v == scraped_data[Len(final_results) + 1]
           IN  /\ gemini_replies' = Append(gemini_replies, reply)
               /\ final_results' =
                      Append(final_results, analyze_single_video(v["video_id"], reply))
    /\ UNCHANGED <<scraped_data, gemini_pc>>
    /\ UNCHANGED <<varsMerge, varsPop, varsMulti, varsMain, varsDb, varsDownload, varsStartup, varsFanOut, varsSearch>>

\* return final_results
ReturnFinalResults ==
    /\ gemini_pc = "analyzing"
    /\ Len(final_results) = Len(scraped_data)
    /\ gemini_pc' = "returned"
    /\ UNCHANGED <<scraped_data, gemini_replies, final_results>>
    /\ UNCHANGED <<varsMerge, varsPop, varsMulti, varsMain, varsDb, varsDownload, varsStartup, varsFanOut, varsSearch>>

NextGemini ==
    \/ AnalyzeVideo
    \/ ReturnFinalResults

SpecGemini == InitGemini /\ [][NextGemini]_vars

\* -------------------------------------------------------------- SpecMain
\* main() of engine/app.py with the four tasks it runs through thread pools:
\* run_gemini_processing and run_multiplatform_analysis, and inside the
\* latter run_spotify_analysis and run_deezer_analysis.  Every action is one
\* step of one thread; the threads interleave freely.

\* faulty variant: result() returns as soon as the task was submitted
FutureDone_nowait(f) == f # "none"

\* a future is done once its task returned or raised; result() and the
\* pool's shutdown(wait=True) block until then
FutureDone(f) == f \notin {"none", "running"}

\* faulty variant: the task's exception is never re-raised
FutureException_dropped(f) == "none"

\* the exception result() re-raises, "none" when the task returned
FutureException(f) == IF f \in {"none", "running", "returned"} THEN "none" ELSE f

InitMain ==
    /\ main_pc = "run_scraper"
    /\ main_exc = "none"
    /\ executed = {}
    /\ n_videos = 0
    /\ main_results = {}
    /\ future_gemini = "none"
    /\ future_multi = "none"
    /\ future_spotify = "none"
    /\ future_deezer = "none"
    /\ gemini_progress = 0
    /\ spotify_progress = 0
    /\ deezer_progress = 0
    /\ multi_step = "idle"
    /\ multi_exc = "none"
    /\ multi_results = {}
    /\ scored = 0
    /\ MergeIdle /\ PopIdle /\ MultiIdle /\ GeminiIdle /\ DbIdle /\ DownloadIdle /\ StartupIdle /\ FanOutIdle /\ SearchIdle

\* run_scraper(): YOUTUBE_API_KEY is missing, the configuration error
StartupConfigError ==
    /\ main_pc = "run_scraper"
    /\ main_pc' = "config_error"
    /\ main_exc' = "ValueError"
    /\ UNCHANGED <<executed, n_videos, main_results, future_gemini,
                   future_multi, future_spotify, future_deezer,
                   gemini_progress, spotify_progress, deezer_progress,
                   multi_step, multi_exc, multi_results, scored>>
    /\ UNCHANGED <<varsMerge, varsPop, varsMulti, varsGemini, varsDb, varsDownload, varsStartup, varsFanOut, varsSearch>>

\* run_scraper(): a request or the indexing of its answer raises; nothing
\* catches it
ScraperRaises ==
    /\ main_pc = "run_scraper"
    /\ main_pc' = "aborted"
    /\ main_exc' \in {"ConnectionError", "IndexError"}
    /\ UNCHANGED <<executed, n_videos, main_results, future_gemini,
                   future_multi, future_spotify, future_deezer,
                   gemini_progress, spotify_progress, deezer_progress,
                   multi_step, multi_exc, multi_results, scored>>
    /\ UNCHANGED <<varsMerge, varsPop, varsMulti, varsGemini, varsDb, varsDownload, varsStartup, varsFanOut, varsSearch>>

\* raw_video_data = run_scraper(), then "if not raw_video_data: return"
ScraperReturns ==
    /\ main_pc = "run_scraper"
    /\ \E n \in 0..MaxVideos :
           /\ n_videos' = n
           /\ main_pc' = IF n = 0 THEN "exited" ELSE "submit_gemini"
    /\ UNCHANGED <<main_exc, executed, main_results, future_gemini,
                   future_multi, future_spotify, future_deezer,
                   gemini_progress, spotify_progress, deezer_progress,
                   multi_step, multi_exc, multi_results, scored>>
    /\ UNCHANGED <<varsMerge, varsPop, varsMulti, varsGemini, varsDb, varsDownload, varsStartup, varsFanOut, varsSearch>>

\* future_gemini = executor.submit(run_gemini_processing, raw_video_data)
SubmitGemini ==
    /\ main_pc = "submit_gemini"
    /\ future_gemini' = "running"
    /\ main_pc' = "submit_multi"
    /\ UNCHANGED <<main_exc, executed, n_videos, main_results, future_multi,
                   future_spotify, future_deezer, gemini_progress,
                   spotify_progress, deezer_progress, multi_step, multi_exc,
                   multi_results, scored>>
    /\ UNCHANGED <<varsMerge, varsPop, varsMulti, varsGemini, varsDb, varsDownload, varsStartup, varsFanOut, varsSearch>>

\* future_multi = executor.submit(run_multiplatform_analysis, raw_video_data)
SubmitMulti ==
    /\ main_pc = "submit_multi"
    /\ future_multi' = "running"
    /\ multi_step' = "submit_spotify"
    /\ main_pc' = "join_gemini"
    /\ UNCHANGED <<main_exc, executed, n_videos, main_results, future_gemini,
                   future_spotify, future_deezer, gemini_progress,
                   spotify_progress, deezer_progress, multi_exc,
                   multi_results, scored>>
    /\ UNCHANGED <<varsMerge, varsPop, varsMulti, varsGemini, varsDb, varsDownload, varsStartup, varsFanOut, varsSearch>>

\* gemini_results = future_gemini.result()
JoinGemini ==
    /\ main_pc = "join_gemini"
    /\ FutureDone(future_gemini)
    /\ IF FutureException(future_gemini) = "none"
       THEN /\ main_results' = main_results \cup {"gemini"}
            /\ main_pc' = "join_multi"
            /\ UNCHANGED main_exc
       ELSE /\ main_exc' = FutureException(future_gemini)
            /\ main_pc' = "shutdown"
            /\ UNCHANGED main_results
    /\ UNCHANGED <<executed, n_videos, future_gemini, future_multi,
                   future_spotify, future_deezer, gemini_progress,
                   spotify_progress, deezer_progress, multi_step, multi_exc,
                   multi_results, scored>>
    /\ UNCHANGED <<varsMerge, varsPop, varsMulti, varsGemini, varsDb, varsDownload, varsStartup, varsFanOut, varsSearch>>

\* multiplatform_results = future_multi.result()
JoinMulti ==
    /\ main_pc = "join_multi"
    /\ FutureDone(future_multi)
    /\ IF FutureException(future_multi) = "none"
       THEN /\ main_results' = main_results \cup {"multi"}
            /\ UNCHANGED main_exc
       ELSE /\ main_exc' = FutureException(future_multi)
            /\ UNCHANGED main_results
    /\ main_pc' = "shutdown"
    /\ UNCHANGED <<executed, n_videos, future_gemini, future_multi,
                   future_spotify, future_deezer, gemini_progress,
                   spotify_progress, deezer_progress, multi_step, multi_exc,
                   multi_results, scored>>
    /\ UNCHANGED <<varsMerge, varsPop, varsMulti, varsGemini, varsDb, varsDownload, varsStartup, varsFanOut, varsSearch>>

\* the end of the with block: shutdown(wait=True), then the next statement or
\* the pending exception
MainShutdown ==
    /\ main_pc = "shutdown"
    /\ FutureDone(future_gemini) /\ FutureDone(future_multi)
    /\ main_pc' = IF main_exc = "none" THEN "merge_data" ELSE "aborted"
    /\ UNCHANGED <<main_exc, executed, n_videos, main_results, future_gemini,
                   future_multi, future_spotify, future_deezer,
                   gemini_progress, spotify_progress, deezer_progress,
                   multi_step, multi_exc, multi_results, scored>>
    /\ UNCHANGED <<varsMerge, varsPop, varsMulti, varsGemini, varsDb, varsDownload, varsStartup, varsFanOut, varsSearch>>

\* final_analyzed_data = merge_data(...); a secondary record without a
\* "video_id" key raises KeyError
MergeData ==
    /\ main_pc = "merge_data"
    /\ executed' = executed \cup {"merge_data"}
    /\ \/ main_pc' = "display_terminal_table" /\ UNCHANGED main_exc
       \/ main_pc' = "aborted" /\ main_exc' = "KeyError"
    /\ UNCHANGED <<n_videos, main_results, future_gemini, future_multi,
                   future_spotify, future_deezer, gemini_progress,
                   spotify_progress, deezer_progress, multi_step, multi_exc,
                   multi_results, scored>>
    /\ UNCHANGED <<varsMerge, varsPop, varsMulti, varsGemini, varsDb, varsDownload, varsStartup, varsFanOut, varsSearch>>

\* display_terminal_table(final_analyzed_data)
DisplayTerminalTable ==
    /\ main_pc = "display_terminal_table"
    /\ executed' = executed \cup {"display_terminal_table"}
    /\ main_pc' = "insert_analysis_results"
    /\ UNCHANGED <<main_exc, n_videos, main_results, future_gemini,
                   future_multi, future_spotify, future_deezer,
                   gemini_progress, spotify_progress, deezer_progress,
                   multi_step, multi_exc, multi_results, scored>>
    /\ UNCHANGED <<varsMerge, varsPop, varsMulti, varsGemini, varsDb, varsDownload, varsStartup, varsFanOut, varsSearch>>

\* inserted_count = insert_analysis_results(final_analyzed_data)
InsertAnalysisResults ==
    /\ main_pc = "insert_analysis_results"
    /\ executed' = executed \cup {"insert_analysis_results"}
    /\ main_pc' = "final_message"
    /\ UNCHANGED <<main_exc, n_videos, main_results, future_gemini,
                   future_multi, future_spotify, future_deezer,
                   gemini_progress, spotify_progress, deezer_progress,
                   multi_step, multi_exc, multi_results, scored>>
    /\ UNCHANGED <<varsMerge, varsPop, varsMulti, varsGemini, varsDb, varsDownload, varsStartup, varsFanOut, varsSearch>>

\* the closing print
FinalMessage ==
    /\ main_pc = "final_message"
    /\ executed' = executed \cup {"final_message"}
    /\ main_pc' = "finished"
    /\ UNCHANGED <<main_exc, n_videos, main_results, future_gemini,
                   future_multi, future_spotify, future_deezer,
                   gemini_progress, spotify_progress, deezer_progress,
                   multi_step, multi_exc, multi_results, scored>>
    /\ UNCHANGED <<varsMerge, varsPop, varsMulti, varsGemini, varsDb, varsDownload, varsStartup, varsFanOut, varsSearch>>

\* run_gemini_processing: one video analysed
GeminiStep ==
    /\ future_gemini = "running"
    /\ gemini_progress < n_videos
    /\ gemini_progress' = gemini_progress + 1
    /\ UNCHANGED <<main_pc, main_exc, executed, n_videos, main_results,
                   future_gemini, future_multi, future_spotify,
                   future_deezer, spotify_progress, deezer_progress,
                   multi_step, multi_exc, multi_results, scored>>
    /\ UNCHANGED <<varsMerge, varsPop, varsMulti, varsGemini, varsDb, varsDownload, varsStartup, varsFanOut, varsSearch>>

\* run_gemini_processing: an error outside analyze_single_video's try
GeminiRaises ==
    /\ future_gemini = "running"
    /\ gemini_progress < n_videos
    /\ future_gemini' = "GeminiTaskError"
    /\ UNCHANGED <<main_pc, main_exc, executed, n_videos, main_results,
                   future_multi, future_spotify, future_deezer,
                   gemini_progress, spotify_progress, deezer_progress,
                   multi_step, multi_exc, multi_results, scored>>
    /\ UNCHANGED <<varsMerge, varsPop, varsMulti, varsGemini, varsDb, varsDownload, varsStartup, varsFanOut, varsSearch>>

\* run_gemini_processing: return final_results
GeminiReturns ==
    /\ future_gemini = "running"
    /\ gemini_progress = n_videos
    /\ future_gemini' = "returned"
    /\ UNCHANGED <<main_pc, main_exc, executed, n_videos, main_results,
                   future_multi, future_spotify, future_deezer,
                   gemini_progress, spotify_progress, deezer_progress,
                   multi_step, multi_exc, multi_results, scored>>
    /\ UNCHANGED <<varsMerge, varsPop, varsMulti, varsGemini, varsDb, varsDownload, varsStartup, varsFanOut, varsSearch>>

\* future_spotify = executor.submit(run_spotify_analysis, raw_video_data)
MultiSubmitSpotify ==
    /\ multi_step = "submit_spotify"
    /\ future_spotify' = "running"
    /\ multi_step' = "submit_deezer"
    /\ UNCHANGED <<main_pc, main_exc, executed, n_videos, main_results,
                   future_gemini, future_multi, future_deezer,
                   gemini_progress, spotify_progress, deezer_progress,
                   multi_exc, multi_results, scored>>
    /\ UNCHANGED <<varsMerge, varsPop, varsMulti, varsGemini, varsDb, varsDownload, varsStartup, varsFanOut, varsSearch>>

\* future_deezer = executor.submit(run_deezer_analysis, raw_video_data)
MultiSubmitDeezer ==
    /\ multi_step = "submit_deezer"
    /\ future_deezer' = "running"
    /\ multi_step' = "join_spotify"
    /\ UNCHANGED <<main_pc, main_exc, executed, n_videos, main_results,
                   future_gemini, future_multi, future_spotify,
                   gemini_progress, spotify_progress, deezer_progress,
                   multi_exc, multi_results, scored>>
    /\ UNCHANGED <<varsMerge, varsPop, varsMulti, varsGemini, varsDb, varsDownload, varsStartup, varsFanOut, varsSearch>>

\* spotify_results = future_spotify.result()
MultiJoinSpotify ==
    /\ multi_step = "join_spotify"
    /\ FutureDone(future_spotify)
    /\ IF FutureException(future_spotify) = "none"
       THEN /\ multi_results' = multi_results \cup {"spotify"}
            /\ multi_step' = "join_deezer"
            /\ UNCHANGED multi_exc
       ELSE /\ multi_exc' = FutureException(future_spotify)
            /\ multi_step' = "shutdown"
            /\ UNCHANGED multi_results
    /\ UNCHANGED <<main_pc, main_exc, executed, n_videos, main_results,
                   future_gemini, future_multi, future_spotify,
                   future_deezer, gemini_progress, spotify_progress,
                   deezer_progress, scored>>
    /\ UNCHANGED <<varsMerge, varsPop, varsMulti, varsGemini, varsDb, varsDownload, varsStartup, varsFanOut, varsSearch>>

\* deezer_results = future_deezer.result()
MultiJoinDeezer ==
    /\ multi_step = "join_deezer"
    /\ FutureDone(future_deezer)
    /\ IF FutureException(future_deezer) = "none"
       THEN /\ multi_results' = multi_results \cup {"deezer"}
            /\ UNCHANGED multi_exc
       ELSE /\ multi_exc' = FutureException(future_deezer)
            /\ UNCHANGED multi_results
    /\ multi_step' = "shutdown"
    /\ UNCHANGED <<main_pc, main_exc, executed, n_videos, main_results,
                   future_gemini, future_multi, future_spotify,
                   future_deezer, gemini_progress, spotify_progress,
                   deezer_progress, scored>>
    /\ UNCHANGED <<varsMerge, varsPop, varsMulti, varsGemini, varsDb, varsDownload, varsStartup, varsFanOut, varsSearch>>

\* the end of the inner with block: shutdown(wait=True), then the scoring
\* loop or the pending exception, which ends the task
MultiShutdown ==
    /\ multi_step = "shutdown"
    /\ FutureDone(future_spotify) /\ FutureDone(future_deezer)
    /\ IF multi_exc = "none"
       THEN /\ multi_step' = "scoring"
            /\ UNCHANGED future_multi
       ELSE /\ multi_step' = "raised"
            /\ future_multi' = multi_exc
    /\ UNCHANGED <<main_pc, main_exc, executed, n_videos, main_results,
                   future_gemini, future_spotify, future_deezer,
                   gemini_progress, spotify_progress, deezer_progress,
                   multi_exc, multi_results, scored>>
    /\ UNCHANGED <<varsMerge, varsPop, varsMulti, varsGemini, varsDb, varsDownload, varsStartup, varsFanOut, varsSearch>>

\* one iteration of the scoring loop
MultiScore ==
    /\ multi_step = "scoring"
    /\ scored < n_videos
    /\ scored' = scored + 1
    /\ UNCHANGED <<main_pc, main_exc, executed, n_videos, main_results,
                   future_gemini, future_multi, future_spotify,
                   future_deezer, gemini_progress, spotify_progress,
                   deezer_progress, multi_step, multi_exc, multi_results>>
    /\ UNCHANGED <<varsMerge, varsPop, varsMulti, varsGemini, varsDb, varsDownload, varsStartup, varsFanOut, varsSearch>>

\* process_single_video_popularity raises (int() of a null signal)
MultiScoreRaises ==
    /\ multi_step = "scoring"
    /\ scored < n_videos
    /\ multi_step' = "raised"
    /\ multi_exc' = "TypeError"
    /\ future_multi' = "TypeError"
    /\ UNCHANGED <<main_pc, main_exc, executed, n_videos, main_results,
                   future_gemini, future_spotify, future_deezer,
                   gemini_progress, spotify_progress, deezer_progress,
                   multi_results, scored>>
    /\ UNCHANGED <<varsMerge, varsPop, varsMulti, varsGemini, varsDb, varsDownload, varsStartup, varsFanOut, varsSearch>>

\* return final_popularity_data
MultiReturns ==
    /\ multi_step = "scoring"
    /\ scored = n_videos
    /\ multi_step' = "returned"
    /\ future_multi' = "returned"
    /\ UNCHANGED <<main_pc, main_exc, executed, n_videos, main_results,
                   future_gemini, future_spotify, future_deezer,
                   gemini_progress, spotify_progress, deezer_progress,
                   multi_exc, multi_results, scored>>
    /\ UNCHANGED <<varsMerge, varsPop, varsMulti, varsGemini, varsDb, varsDownload, varsStartup, varsFanOut, varsSearch>>

\* run_spotify_analysis: one video searched
SpotifyStep ==
    /\ future_spotify = "running"
    /\ spotify_progress < n_videos
    /\ spotify_progress' = spotify_progress + 1
    /\ UNCHANGED <<main_pc, main_exc, executed, n_videos, main_results,
                   future_gemini, future_multi, future_spotify,
                   future_deezer, gemini_progress, deezer_progress,
                   multi_step, multi_exc, multi_results, scored>>
    /\ UNCHANGED <<varsMerge, varsPop, varsMulti, varsGemini, varsDb, varsDownload, varsStartup, varsFanOut, varsSearch>>

\* run_spotify_analysis: get_spotify_token reads a token answer that is no object
SpotifyRaises ==
    /\ future_spotify = "running"
    /\ spotify_progress < n_videos
    /\ future_spotify' = "AttributeError"
    /\ UNCHANGED <<main_pc, main_exc, executed, n_videos, main_results,
                   future_gemini, future_multi, future_deezer,
                   gemini_progress, spotify_progress, deezer_progress,
                   multi_step, multi_exc, multi_results, scored>>
    /\ UNCHANGED <<varsMerge, varsPop, varsMulti, varsGemini, varsDb, varsDownload, varsStartup, varsFanOut, varsSearch>>

\* run_spotify_analysis: return the list
SpotifyReturns ==
    /\ future_spotify = "running"
    /\ spotify_progress = n_videos
    /\ future_spotify' = "returned"
    /\ UNCHANGED <<main_pc, main_exc, executed, n_videos, main_results,
                   future_gemini, future_multi, future_deezer,
                   gemini_progress, spotify_progress, deezer_progress,
                   multi_step, multi_exc, multi_results, scored>>
    /\ UNCHANGED <<varsMerge, varsPop, varsMulti, varsGemini, varsDb, varsDownload, varsStartup, varsFanOut, varsSearch>>

\* run_deezer_analysis: one video searched
DeezerStep ==
    /\ future_deezer = "running"
    /\ deezer_progress < n_videos
    /\ deezer_progress' = deezer_progress + 1
    /\ UNCHANGED <<main_pc, main_exc, executed, n_videos, main_results,
                   future_gemini, future_multi, future_spotify,
                   future_deezer, gemini_progress, spotify_progress,
                   multi_step, multi_exc, multi_results, scored>>
    /\ UNCHANGED <<varsMerge, varsPop, varsMulti, varsGemini, varsDb, varsDownload, varsStartup, varsFanOut, varsSearch>>

\* run_deezer_analysis: an error outside search_track's try
DeezerRaises ==
    /\ future_deezer = "running"
    /\ deezer_progress < n_videos
    /\ future_deezer' = "DeezerTaskError"
    /\ UNCHANGED <<main_pc, main_exc, executed, n_videos, main_results,
                   future_gemini, future_multi, future_spotify,
                   gemini_progress, spotify_progress, deezer_progress,
                   multi_step, multi_exc, multi_results, scored>>
    /\ UNCHANGED <<varsMerge, varsPop, varsMulti, varsGemini, varsDb, varsDownload, varsStartup, varsFanOut, varsSearch>>

\* run_deezer_analysis: return the list
DeezerReturns ==
    /\ future_deezer = "running"
    /\ deezer_progress = n_videos
    /\ future_deezer' = "returned"
    /\ UNCHANGED <<main_pc, main_exc, executed, n_videos, main_results,
                   future_gemini, future_multi, future_spotify,
                   gemini_progress, spotify_progress, deezer_progress,
                   multi_step, multi_exc, multi_results, scored>>
    /\ UNCHANGED <<varsMerge, varsPop, varsMulti, varsGemini, varsDb, varsDownload, varsStartup, varsFanOut, varsSearch>>

NextMain ==
    \/ StartupConfigError
    \/ ScraperRaises
    \/ ScraperReturns
    \/ SubmitGemini
    \/ SubmitMulti
    \/ JoinGemini
    \/ JoinMulti
    \/ MainShutdown
    \/ MergeData
    \/ DisplayTerminalTable
    \/ InsertAnalysisResults
    \/ FinalMessage
    \/ GeminiStep
    \/ GeminiRaises
    \/ GeminiReturns
    \/ MultiSubmitSpotify
    \/ MultiSubmitDeezer
    \/ MultiJoinSpotify
    \/ MultiJoinDeezer
    \/ MultiShutdown
    \/ MultiScore
    \/ MultiScoreRaises
    \/ MultiReturns
    \/ SpotifyStep
    \/ SpotifyRaises
    \/ SpotifyReturns
    \/ DeezerStep
    \/ DeezerRaises
    \/ DeezerReturns

SpecMain == InitMain /\ [][NextMain]_vars

\* ---------------------------------------------------------------- SpecDb
\* insert_analysis_results of engine/database.py and the "analysis" table.
\* A merged record is a dict: "video_id" holds the id, every other key a
\* Python value.

NoneLabel == PyStr(<<"N", "o", "n", "e">>)

\* the record built from one item: Raised when a coercion raises
ConvertRecord(item) ==
    LET confidence == float(DictGet(item, "gemini_confidence_score", PyFloat(Zero)))
        score == float(DictGet(item, "normalized_score", PyFloat(Zero)))
        views == int(DictGet(item, "youtube_views", PyInt(0)))
    IN  IF confidence.exc # "none" THEN Raised(confidence.exc)
        ELSE IF score.exc # "none" THEN Raised(score.exc)
        ELSE IF views.exc # "none" THEN Raised(views.exc)
        ELSE Returned(
            [video_id |-> DictGet(item, "video_id", "None"),
             sentiment_flag |-> DictGet(item, "sentiment_flag", PyInt(0)),
             multianalysis_flag |-> DictGet(item, "popularity_flag", PyInt(0)),
             emotional_genre |-> DictGet(item, "emotional_genre", UnknownGenre),
             sega_genre |-> DictGet(item, "sega_genre", NotSega),
             gemini_confidence_score |-> PyFloat(confidence.val),
             comment_density_rating |-> DictGet(item, "comment_density_rating", LowRating),
             normalized_score |-> PyFloat(score.val),
             streaming_platform_used |-> DictGet(item, "streaming_platform_used", NoneLabel),
             youtube_views |-> PyInt(views.val)])

\* faulty variant: the first record that fails ends the loop
RECURSIVE RecordsToInsert_abort(_)
RecordsToInsert_abort(items) ==
    IF items = <<>> THEN <<>>
    ELSE LET first == ConvertRecord(Head(items))
         IN  IF first.exc = "none"
             THEN <<first.val>> \o RecordsToInsert_abort(Tail(items))
             ELSE <<>>

\* the loop over data_list: a record that converts is appended, one whose
\* conversion raises is skipped
RECURSIVE RecordsToInsert(_)
RecordsToInsert(items) ==
    IF items = <<>> THEN <<>>
    ELSE LET first == ConvertRecord(Head(items))
         IN  IF first.exc = "none"
             THEN <<first.val>> \o RecordsToInsert(Tail(items))
             ELSE RecordsToInsert(Tail(items))

\* the table after insert(records).execute(): the rows are added at the
\* end, or the statement is rejected and the table is as before
TableAfterInsert(table, records, outcome) ==
    IF outcome = "rejected" THEN table ELSE table \o records

\* what insert_analysis_results returns after the insert
ReturnedCount(records, outcome) ==
    IF outcome = "inserted" THEN Len(records) ELSE 0

\* what the insert can do: the rows are written and returned, the rows are
\* written and no data is returned, or the statement raises
InsertOutcomes == {"inserted", "no_data", "rejected"}

\* merged records: complete ones, one with only its id, and ones with a
\* field that does not convert
MergedItems ==
    { [video_id |-> "v1", sentiment_flag |-> PyInt(1), popularity_flag |-> PyInt(1),
       gemini_confidence_score |-> PyFloat(Float(4, 5)),
       normalized_score |-> PyFloat(Half), youtube_views |-> PyStr(<<"4">>)],
      [video_id |-> "v2", sentiment_flag |-> PyInt(0), popularity_flag |-> PyInt(0),
       gemini_confidence_score |-> PyStr(<<"0", ".", "8">>),
       normalized_score |-> PyInt(1), youtube_views |-> PyFloat(Float(5, 2))],
      [video_id |-> "v2"],
      [video_id |-> "v1", sentiment_flag |-> PyInt(1), popularity_flag |-> PyInt(1),
       gemini_confidence_score |-> PyStr(<<"a", "b", "c">>),
       normalized_score |-> PyFloat(Half), youtube_views |-> PyStr(<<"4">>)],
      [video_id |-> "v2", sentiment_flag |-> PyInt(1), popularity_flag |-> PyInt(1),
       gemini_confidence_score |-> PyFloat(Float(4, 5)),
       normalized_score |-> PyNone, youtube_views |-> PyStr(<<"4">>)],
      [video_id |-> "v1", sentiment_flag |-> PyInt(1), popularity_flag |-> PyInt(1),
       gemini_confidence_score |-> PyFloat(Float(4, 5)),
       normalized_score |-> PyFloat(Half), youtube_views |-> PyStr(<<"1", ".", "5">>)] }

InitDb ==
    /\ data_list \in SeqsUpTo(MergedItems, MaxVideos)
    /\ records_to_insert = <<>>
    /\ db_table = <<>>
    /\ db_outcomes = <<>>
    /\ inserted_count = 0
    /\ MergeIdle /\ PopIdle /\ MultiIdle /\ GeminiIdle /\ MainIdle /\ DownloadIdle /\ StartupIdle /\ FanOutIdle /\ SearchIdle

\* one run's call insert_analysis_results(data_list): nothing is sent for an
\* empty list; otherwise the records that convert are sent in one insert
InsertBatch ==
    /\ Len(db_outcomes) < MaxRuns
    /\ IF data_list = <<>>
       THEN /\ db_outcomes' = Append(db_outcomes, "no call")
            /\ inserted_count' = 0
            /\ UNCHANGED <<records_to_insert, db_table>>
       ELSE \E outcome \in InsertOutcomes :
                LET records == RecordsToInsert(data_list)
                IN  /\ records_to_insert' = records
                    /\ db_table' = TableAfterInsert(db_table, records, outcome)
                    /\ db_outcomes' = Append(db_outcomes, outcome)
                    /\ inserted_count' = ReturnedCount(records, outcome)
    /\ UNCHANGED data_list
    /\ UNCHANGED <<varsMerge, varsPop, varsMulti, varsGemini, varsMain, varsDownload, varsStartup, varsFanOut, varsSearch>>

NextDb == InsertBatch

SpecDb == InitDb /\ [][NextDb]_vars

\* ---------------------------------------------------------- SpecDownload
\* main() of engine/download.py: the loop over the target videos.  The rows
\* are taken one by one; what a row is (no id, file already there, to be
\* downloaded) and what its download does are the environment's choice.  An
\* error message is the sequence of its words.

\* hard cap per run
MAX_DOWNLOADS_PER_RUN == 100

\* pat occurs in msg
IsInfix(pat, msg) ==
    \E k \in 0..(Len(msg) - Len(pat)) :
        \A i \in 1..Len(pat) : msg[k + i] = pat[i]

\* faulty variant: only the status code is looked for
RateLimited_code_only(msg) == IsInfix(<<"429">>, msg)

\* "429" in msg or "Too Many Requests" in msg
RateLimited(msg) ==
    IsInfix(<<"429">>, msg) \/ IsInfix(<<"Too", "Many", "Requests">>, msg)

\* str(e) of a failed download
DownloadErrors ==
    { <<"HTTP", "Error", "429">>,
      <<"Too", "Many", "Requests">>,
      <<"Video", "unavailable">> }

InitDownload ==
    /\ dl_rows = 0
    /\ downloaded_this_run = 0
    /\ download_calls = 0
    /\ dl_msg = <<>>
    /\ dl_pc = "loop"
    /\ MergeIdle /\ PopIdle /\ MultiIdle /\ GeminiIdle /\ MainIdle /\ DbIdle /\ StartupIdle /\ FanOutIdle /\ SearchIdle

\* "if downloaded_this_run >= MAX_DOWNLOADS_PER_RUN: break" at the next row
CapReached ==
    /\ dl_pc = "loop"
    /\ dl_rows < MaxTargets
    /\ downloaded_this_run >= MAX_DOWNLOADS_PER_RUN
    /\ dl_pc' = "cap"
    /\ UNCHANGED <<dl_rows, downloaded_this_run, download_calls, dl_msg>>
    /\ UNCHANGED <<varsMerge, varsPop, varsMulti, varsGemini, varsMain, varsDb, varsStartup, varsFanOut, varsSearch>>

\* a row without a video_id, or one whose file exists: continue
SkipRow ==
    /\ dl_pc = "loop"
    /\ dl_rows < MaxTargets
    /\ downloaded_this_run < MAX_DOWNLOADS_PER_RUN
    /\ dl_rows' = dl_rows + 1
    /\ dl_msg' = <<>>
    /\ UNCHANGED <<downloaded_this_run, download_calls, dl_pc>>
    /\ UNCHANGED <<varsMerge, varsPop, varsMulti, varsGemini, varsMain, varsDb, varsStartup, varsFanOut, varsSearch>>

\* download_audio_for_video(video_id) returns: the counter is incremented
DownloadSucceeds ==
    /\ dl_pc = "loop"
    /\ dl_rows < MaxTargets
    /\ downloaded_this_run < MAX_DOWNLOADS_PER_RUN
    /\ dl_rows' = dl_rows + 1
    /\ download_calls' = download_calls + 1
    /\ downloaded_this_run' = downloaded_this_run + 1
    /\ dl_msg' = <<>>
    /\ UNCHANGED dl_pc
    /\ UNCHANGED <<varsMerge, varsPop, varsMulti, varsGemini, varsMain, varsDb, varsStartup, varsFanOut, varsSearch>>

\* download_audio_for_video(video_id) raises: "except Exception", then break
\* when the message tells of rate limiting
DownloadFails ==
    /\ dl_pc = "loop"
    /\ dl_rows < MaxTargets
    /\ downloaded_this_run < MAX_DOWNLOADS_PER_RUN
    /\ \E msg \in DownloadErrors :
           /\ dl_msg' = msg
           /\ dl_pc' = IF RateLimited(msg) THEN "rate_limited" ELSE "loop"
    /\ dl_rows' = dl_rows + 1
    /\ download_calls' = download_calls + 1
    /\ UNCHANGED downloaded_this_run
    /\ UNCHANGED <<varsMerge, varsPop, varsMulti, varsGemini, varsMain, varsDb, varsStartup, varsFanOut, varsSearch>>

\* the list of rows is exhausted
EndOfRows ==
    /\ dl_pc = "loop"
    /\ dl_pc' = "end"
    /\ UNCHANGED <<dl_rows, downloaded_this_run, download_calls, dl_msg>>
    /\ UNCHANGED <<varsMerge, varsPop, varsMulti, varsGemini, varsMain, varsDb, varsStartup, varsFanOut, varsSearch>>

NextDownload ==
    \/ CapReached
    \/ SkipRow
    \/ DownloadSucceeds
    \/ DownloadFails
    \/ EndOfRows

SpecDownload == InitDownload /\ [][NextDownload]_vars

\* ----------------------------------------------------------- SpecStartup
\* The settings the program reads: environment variables (through .env) and
\* the channel list file.
Settings ==
    { "YOUTUBE_API_KEY", "GEMINI_API_KEY", "SUPABASE_URL", "SUPABASE_KEY",
      "SPOTIFY_CLIENT_ID", "SPOTIFY_CLIENT_SECRET", "config.yml" }

\* faulty variant: gemini.py does not test its key when it is imported
StartupError_no_gemini_check(step, present) ==
    CASE step = "import_database" /\ ("SUPABASE_URL" \notin present
                                       \/ "SUPABASE_KEY" \notin present)
             -> "ValueError"
      [] step = "run_scraper" /\ "YOUTUBE_API_KEY" \notin present
             -> "ValueError"
      [] step = "get_config" /\ "config.yml" \notin present
             -> "FileNotFoundError"
      [] OTHER -> "none"

\* The exception a startup step raises with the settings present:
\*   gemini.py    "if not GEMINI_KEY: raise ValueError"
\*   database.py  "if not url or not key: raise ValueError"
\*   run_scraper  "if not API_KEY: raise ValueError"
\*   get_config   open("config.yml") of a file that does not exist
StartupError(step, present) ==
    CASE step = "import_gemini" /\ "GEMINI_API_KEY" \notin present
             -> "ValueError"
      [] step = "import_database" /\ ("SUPABASE_URL" \notin present
                                       \/ "SUPABASE_KEY" \notin present)
             -> "ValueError"
      [] step = "run_scraper" /\ "YOUTUBE_API_KEY" \notin present
             -> "ValueError"
      [] step = "get_config" /\ "config.yml" \notin present
             -> "FileNotFoundError"
      [] OTHER -> "none"

\* spotify.py: "if not CLIENT_ID or not CLIENT_SECRET: ... SPOTIFY_ENABLED =
\* False else: SPOTIFY_ENABLED = True" (a warning is printed, nothing raised)
SpotifyEnabled(present) ==
    IF "SPOTIFY_CLIENT_ID" \notin present
       \/ "SPOTIFY_CLIENT_SECRET" \notin present
    THEN "False" ELSE "True"

InitStartup ==
    /\ environment \in SUBSET Settings
    /\ SPOTIFY_ENABLED = "unset"
    /\ st_pc = "import_gemini"
    /\ st_exc = "none"
    /\ st_tasks = {}
    /\ work_done = {}
    /\ MergeIdle /\ PopIdle /\ MultiIdle /\ GeminiIdle /\ MainIdle /\ DbIdle /\ DownloadIdle /\ FanOutIdle /\ SearchIdle

\* a step of the startup that raises or goes on to the next position
StartupStep(step, next) ==
    /\ st_pc = step
    /\ st_exc' = StartupError(step, environment)
    /\ st_pc' = IF StartupError(step, environment) = "none"
                THEN next ELSE "failed"

\* app.py "from gemini import run_gemini_processing" ("from scraper import
\* run_scraper" before it only reads the key)
ImportGemini ==
    /\ StartupStep("import_gemini", "import_multiplatform")
    /\ UNCHANGED <<environment, SPOTIFY_ENABLED, st_tasks, work_done>>
    /\ UNCHANGED <<varsMerge, varsPop, varsMulti, varsGemini, varsMain, varsDb, varsDownload, varsFanOut, varsSearch>>

\* app.py "from multiplatform_analysis import ...", which imports spotify.py
ImportMultiplatform ==
    /\ st_pc = "import_multiplatform"
    /\ SPOTIFY_ENABLED' = SpotifyEnabled(environment)
    /\ st_pc' = "import_database"
    /\ UNCHANGED <<environment, st_exc, st_tasks, work_done>>
    /\ UNCHANGED <<varsMerge, varsPop, varsMulti, varsGemini, varsMain, varsDb, varsDownload, varsFanOut, varsSearch>>

\* app.py "from database import insert_analysis_results"
ImportDatabase ==
    /\ StartupStep("import_database", "run_scraper")
    /\ UNCHANGED <<environment, SPOTIFY_ENABLED, st_tasks, work_done>>
    /\ UNCHANGED <<varsMerge, varsPop, varsMulti, varsGemini, varsMain, varsDb, varsDownload, varsFanOut, varsSearch>>

\* main() calls run_scraper(): "if not API_KEY: raise ValueError"
CheckApiKey ==
    /\ StartupStep("run_scraper", "get_config")
    /\ UNCHANGED <<environment, SPOTIFY_ENABLED, st_tasks, work_done>>
    /\ UNCHANGED <<varsMerge, varsPop, varsMulti, varsGemini, varsMain, varsDb, varsDownload, varsFanOut, varsSearch>>

\* run_scraper: "config = get_config()"
GetConfig ==
    /\ StartupStep("get_config", "scrape")
    /\ UNCHANGED <<environment, SPOTIFY_ENABLED, st_tasks, work_done>>
    /\ UNCHANGED <<varsMerge, varsPop, varsMulti, varsGemini, varsMain, varsDb, varsDownload, varsFanOut, varsSearch>>

\* run_scraper: the requests to the YouTube API, then main() fans out
CollectorRequests ==
    /\ st_pc = "scrape"
    /\ work_done' = work_done \cup {"Collector"}
    /\ st_pc' = "fan_out"
    /\ UNCHANGED <<environment, SPOTIFY_ENABLED, st_exc, st_tasks>>
    /\ UNCHANGED <<varsMerge, varsPop, varsMulti, varsGemini, varsMain, varsDb, varsDownload, varsFanOut, varsSearch>>

\* run_gemini_processing: the requests to the LLM
ClassifierRequests ==
    /\ st_pc = "fan_out"
    /\ "gemini" \notin st_tasks
    /\ st_tasks' = st_tasks \cup {"gemini"}
    /\ work_done' = work_done \cup {"Classifier"}
    /\ UNCHANGED <<environment, SPOTIFY_ENABLED, st_pc, st_exc>>
    /\ UNCHANGED <<varsMerge, varsPop, varsMulti, varsGemini, varsMain, varsDb, varsDownload, varsFanOut, varsSearch>>

\* run_spotify_analysis: "if not SPOTIFY_ENABLED: ... return []", else the
\* token request and the searches
SpotifyAnalysis ==
    /\ st_pc = "fan_out"
    /\ "spotify" \notin st_tasks
    /\ st_tasks' = st_tasks \cup {"spotify"}
    /\ work_done' = IF SPOTIFY_ENABLED = "True"
                    THEN work_done \cup {"Spotify"} ELSE work_done
    /\ UNCHANGED <<environment, SPOTIFY_ENABLED, st_pc, st_exc>>
    /\ UNCHANGED <<varsMerge, varsPop, varsMulti, varsGemini, varsMain, varsDb, varsDownload, varsFanOut, varsSearch>>

\* run_deezer_analysis: the searches, which need no credential
DeezerAnalysis ==
    /\ st_pc = "fan_out"
    /\ "deezer" \notin st_tasks
    /\ st_tasks' = st_tasks \cup {"deezer"}
    /\ work_done' = work_done \cup {"Deezer"}
    /\ UNCHANGED <<environment, SPOTIFY_ENABLED, st_pc, st_exc>>
    /\ UNCHANGED <<varsMerge, varsPop, varsMulti, varsGemini, varsMain, varsDb, varsDownload, varsFanOut, varsSearch>>

\* both futures have a result: main() goes on to merge, display and save
FanOutJoined ==
    /\ st_pc = "fan_out"
    /\ st_tasks = {"gemini", "spotify", "deezer"}
    /\ st_pc' = "done"
    /\ UNCHANGED <<environment, SPOTIFY_ENABLED, st_exc, st_tasks, work_done>>
    /\ UNCHANGED <<varsMerge, varsPop, varsMulti, varsGemini, varsMain, varsDb, varsDownload, varsFanOut, varsSearch>>

NextStartup ==
    \/ ImportGemini
    \/ ImportMultiplatform
    \/ ImportDatabase
    \/ CheckApiKey
    \/ GetConfig
    \/ CollectorRequests
    \/ ClassifierRequests
    \/ SpotifyAnalysis
    \/ DeezerAnalysis
    \/ FanOutJoined

SpecStartup == InitStartup /\ [][NextStartup]_vars

\* ------------------------------------------------------------ SpecFanOut
\* The four loops that run over the Collector's list after main() has
\* submitted its two tasks.  Each iteration is an operator from the shared
\* list to the list after the iteration and to what the loop appends to its
\* own result list.

\* a record of the Collector's list with the fields the branches read
FanVideo(id) ==
    [video_id |-> id, title |-> "raw_title", channel_name |-> "raw_channel",
     views |-> PyStr(<<"7">>), comments |-> <<"c">>]

\* what the LLM call can do for a video
FanReplies ==
    { Raised("ClientError"),
      Returned(Returned(PyDict([video_id |-> "v1", sega_genre |-> UnknownGenre]))) }

\* what search_spotify / search_track can return: None or a track
FanTracks == {"None", "track"}

\* faulty variant: the analysis is stored into the video's own dict
gemini_iteration_in_place(videos, i, reply) ==
    LET analysis == analyze_single_video(videos[i]["video_id"], reply)
    IN  [shared |-> [videos EXCEPT ![i] =
                        [f \in DOMAIN videos[i] \cup {"analysis"} |->
                            IF f = "analysis" THEN analysis ELSE videos[i][f]]],
         result |-> <<analysis>>]

\* run_gemini_processing, one iteration: video["video_id"], video["title"]
\* and video["comments"] are read, the analysis is appended
gemini_iteration(videos, i, reply) ==
    [shared |-> videos,
     result |-> <<analyze_single_video(videos[i]["video_id"], reply)>>]

\* run_spotify_analysis, one iteration: video.get of title, channel_name and
\* video_id; a combined_entry is appended when a track was found
spotify_iteration(videos, i, track_info) ==
    [shared |-> videos,
     result |-> IF track_info = "None" THEN <<>>
                ELSE <<[youtube_video_id |-> videos[i]["video_id"],
                        youtube_title |-> videos[i]["title"],
                        youtube_channel_name |-> videos[i]["channel_name"],
                        spotify_data |-> [popularity |-> PyInt(1)]]>>]

\* run_deezer_analysis, one iteration
deezer_iteration(videos, i, track_info) ==
    [shared |-> videos,
     result |-> IF track_info = "None" THEN <<>>
                ELSE <<[youtube_video_id |-> videos[i]["video_id"],
                        youtube_title |-> videos[i]["title"],
                        youtube_channel_name |-> videos[i]["channel_name"],
                        deezer_data |-> [rank |-> PyInt(3000000)]]>>]

\* run_multiplatform_analysis, one iteration of the scoring loop
scoring_iteration(videos, i, sp_results, dz_results) ==
    [shared |-> videos,
     result |-> <<process_single_video_popularity(
                      videos[i], sp_results, dz_results).val>>]

InitFanOut ==
    /\ collected \in SeqsUpTo({FanVideo(id) : id \in VideoIds}, MaxVideos)
    /\ collected # <<>>
    /\ fan_raw_video_data = collected
    /\ fan_gemini_results = <<>>
    /\ fan_spotify_results = <<>>
    /\ fan_deezer_results = <<>>
    /\ fan_popularity_data = <<>>
    /\ fan_cursor = [gemini |-> 1, spotify |-> 1, deezer |-> 1, scoring |-> 1]
    /\ fan_pc = "running"
    /\ MergeIdle /\ PopIdle /\ MultiIdle /\ GeminiIdle /\ MainIdle /\ DbIdle /\ DownloadIdle /\ StartupIdle /\ SearchIdle

\* "for video in tqdm(scraped_data)": one iteration of the Classifier's loop
FanGeminiIteration ==
    /\ fan_pc = "running"
    /\ fan_cursor.gemini <= Len(fan_raw_video_data)
    /\ \E reply \in FanReplies :
           LET step == gemini_iteration(fan_raw_video_data, fan_cursor.gemini, reply)
           IN  /\ fan_raw_video_data' = step.shared
               /\ fan_gemini_results' = fan_gemini_results \o step.result
    /\ fan_cursor' = [fan_cursor EXCEPT !.gemini = @ + 1]
    /\ UNCHANGED <<collected, fan_spotify_results, fan_deezer_results,
                   fan_popularity_data, fan_pc>>
    /\ UNCHANGED <<varsMerge, varsPop, varsMulti, varsGemini, varsMain, varsDb, varsDownload, varsStartup, varsSearch>>

\* "for video in video_data_list" of run_spotify_analysis
FanSpotifyIteration ==
    /\ fan_pc = "running"
    /\ fan_cursor.spotify <= Len(fan_raw_video_data)
    /\ \E track_info \in FanTracks :
           LET step == spotify_iteration(fan_raw_video_data, fan_cursor.spotify,
                                         track_info)
           IN  /\ fan_raw_video_data' = step.shared
               /\ fan_spotify_results' = fan_spotify_results \o step.result
    /\ fan_cursor' = [fan_cursor EXCEPT !.spotify = @ + 1]
    /\ UNCHANGED <<collected, fan_gemini_results, fan_deezer_results,
                   fan_popularity_data, fan_pc>>
    /\ UNCHANGED <<varsMerge, varsPop, varsMulti, varsGemini, varsMain, varsDb, varsDownload, varsStartup, varsSearch>>

\* "for video in video_data_list" of run_deezer_analysis
FanDeezerIteration ==
    /\ fan_pc = "running"
    /\ fan_cursor.deezer <= Len(fan_raw_video_data)
    /\ \E track_info \in FanTracks :
           LET step == deezer_iteration(fan_raw_video_data, fan_cursor.deezer,
                                        track_info)
           IN  /\ fan_raw_video_data' = step.shared
               /\ fan_deezer_results' = fan_deezer_results \o step.result
    /\ fan_cursor' = [fan_cursor EXCEPT !.deezer = @ + 1]
    /\ UNCHANGED <<collected, fan_gemini_results, fan_spotify_results,
                   fan_popularity_data, fan_pc>>
    /\ UNCHANGED <<varsMerge, varsPop, varsMulti, varsGemini, varsMain, varsDb, varsDownload, varsStartup, varsSearch>>

\* "for video in raw_video_data" of run_multiplatform_analysis, which starts
\* once future_spotify.result() and future_deezer.result() have returned
FanScoringIteration ==
    /\ fan_pc = "running"
    /\ fan_cursor.spotify > Len(fan_raw_video_data)
    /\ fan_cursor.deezer > Len(fan_raw_video_data)
    /\ fan_cursor.scoring <= Len(fan_raw_video_data)
    /\ LET step == scoring_iteration(fan_raw_video_data, fan_cursor.scoring,
                                     fan_spotify_results, fan_deezer_results)
       IN  /\ fan_raw_video_data' = step.shared
           /\ fan_popularity_data' = fan_popularity_data \o step.result
    /\ fan_cursor' = [fan_cursor EXCEPT !.scoring = @ + 1]
    /\ UNCHANGED <<collected, fan_gemini_results, fan_spotify_results,
                   fan_deezer_results, fan_pc>>
    /\ UNCHANGED <<varsMerge, varsPop, varsMulti, varsGemini, varsMain, varsDb, varsDownload, varsStartup, varsSearch>>

\* main(): future_gemini.result() and future_multi.result() have returned
FanJoin ==
    /\ fan_pc = "running"
    /\ fan_cursor.gemini > Len(fan_raw_video_data)
    /\ fan_cursor.scoring > Len(fan_raw_video_data)
    /\ fan_pc' = "joined"
    /\ UNCHANGED <<collected, fan_raw_video_data, fan_gemini_results,
                   fan_spotify_results, fan_deezer_results, fan_popularity_data,
                   fan_cursor>>
    /\ UNCHANGED <<varsMerge, varsPop, varsMulti, varsGemini, varsMain, varsDb, varsDownload, varsStartup, varsSearch>>

NextFanOut ==
    \/ FanGeminiIteration
    \/ FanSpotifyIteration
    \/ FanDeezerIteration
    \/ FanScoringIteration
    \/ FanJoin

SpecFanOut == InitFanOut /\ [][NextFanOut]_vars

\* ------------------------------------------------------------ SpecSearch
\* search_spotify.  A channel name is a sequence of lower-case words (the
\* pattern is matched with (?i)); a query is the kind of string it was built
\* as, the cleaned title being the same in each.

\* "(?i)\b(official|records?|topic|tv|channel|music|videos?)\b"
ChannelStopWords ==
    { "official", "record", "records", "topic", "tv", "channel", "music",
      "video", "videos" }

RECURSIVE StripHyphens(_)
\* .strip(" -") after the spaces are collapsed: hyphens at either end go
StripHyphens(words) ==
    IF words = <<>> THEN words
    ELSE IF Head(words) = "-" THEN StripHyphens(Tail(words))
    ELSE IF words[Len(words)] = "-"
         THEN StripHyphens(SubSeq(words, 1, Len(words) - 1))
    ELSE words

\* clean_channel_name_for_search
clean_channel_name_for_search(name) ==
    IF name = <<>> THEN <<>>
    ELSE StripHyphens(SelectSeq(name, LAMBDA w : w \notin ChannelStopWords))

\* faulty variant: the title-only query is tried first
build_queries_title_first(artist_guess) ==
    IF artist_guess # <<>>
    THEN <<"title_only", "fielded", "free_text">>
    ELSE <<"title_only">>

\* the list "queries": fielded and free-text only "if artist_guess", title
\* only always last
build_queries(artist_guess) ==
    (IF artist_guess # <<>> THEN <<"fielded", "free_text">> ELSE <<>>)
        \o <<"title_only">>

\* the top track of a query's answer, as the dict search_spotify returns
TopTrack(q) == [spotify_id |-> q, popularity |-> PyInt(1)]

\* what the try block does for one query: requests.get or response.json()
\* raises, the answer has no items, or it has items
QueryOutcomes == {"raises", "no_items", "items"}

ChannelNames ==
    { <<>>, <<"official">>, <<"-", "topic">>, <<"big", "frankii">>,
      <<"ras", "natty", "official">> }

InitSearch ==
    /\ token \in {"", "BQD"}
    /\ channel_name \in ChannelNames
    /\ responses \in [{"fielded", "free_text", "title_only"} -> QueryOutcomes]
    /\ queries = <<>>
    /\ issued = <<>>
    /\ search_pc = "called"
    /\ search_result = "unset"
    /\ MergeIdle /\ PopIdle /\ MultiIdle /\ GeminiIdle /\ MainIdle /\ DbIdle /\ DownloadIdle /\ StartupIdle /\ FanOutIdle

\* "if not token: return None"
SearchWithoutToken ==
    /\ search_pc = "called"
    /\ token = ""
    /\ search_result' = "None"
    /\ search_pc' = "returned"
    /\ UNCHANGED <<token, channel_name, responses, queries, issued>>
    /\ UNCHANGED <<varsMerge, varsPop, varsMulti, varsGemini, varsMain, varsDb, varsDownload, varsStartup, varsFanOut>>

\* the cleaning of title and channel name and the building of "queries"
BuildQueries ==
    /\ search_pc = "called"
    /\ token # ""
    /\ queries' = build_queries(clean_channel_name_for_search(channel_name))
    /\ search_pc' = "querying"
    /\ UNCHANGED <<token, channel_name, responses, issued, search_result>>
    /\ UNCHANGED <<varsMerge, varsPop, varsMulti, varsGemini, varsMain, varsDb, varsDownload, varsStartup, varsFanOut>>

\* one iteration of "for q in queries": the request, then the return of the
\* first track or the next query
TryQuery ==
    /\ search_pc = "querying"
    /\ queries # <<>>
    /\ issued' = Append(issued, Head(queries))
    /\ queries' = Tail(queries)
    /\ IF responses[Head(queries)] = "items"
       THEN /\ search_result' = TopTrack(Head(queries))
            /\ search_pc' = "returned"
       ELSE UNCHANGED <<search_result, search_pc>>
    /\ UNCHANGED <<token, channel_name, responses>>
    /\ UNCHANGED <<varsMerge, varsPop, varsMulti, varsGemini, varsMain, varsDb, varsDownload, varsStartup, varsFanOut>>

\* "return None" after the loop
AllQueriesFailed ==
    /\ search_pc = "querying"
    /\ queries = <<>>
    /\ search_result' = "None"
    /\ search_pc' = "returned"
    /\ UNCHANGED <<token, channel_name, responses, queries, issued>>
    /\ UNCHANGED <<varsMerge, varsPop, varsMulti, varsGemini, varsMain, varsDb, varsDownload, varsStartup, varsFanOut>>

NextSearch ==
    \/ SearchWithoutToken
    \/ BuildQueries
    \/ TryQuery
    \/ AllQueriesFailed

SpecSearch == InitSearch /\ [][NextSearch]_vars

\* ------------------------------------------------- claims about merge_data

\* the video_ids of a list of records
IdsOf(items) == {items[i]["video_id"] : i \in DOMAIN items}

\* the fields the records of `items` with video_id `id` have
FieldsFor(items, id) ==
    UNION {DOMAIN items[i] : i \in {k \in DOMAIN items : items[k]["video_id"] = id}}

DistinctIds(items) ==
    \A i, j \in DOMAIN items : items[i]["video_id"] = items[j]["video_id"] => i = j

\* the record of `items` that the lookup table built from it holds for `id`
\* (the only one when the ids of `items` are distinct, else the last one)
RecordFor(items, id) ==
    items[CHOOSE i \in DOMAIN items :
              /\ items[i]["video_id"] = id
              /\ \A j \in DOMAIN items : j > i => items[j]["video_id"] # id]

\* C1: with pairwise-distinct Collector video_ids, merge_data returns exactly
\* N records, exactly one per Collector video_id, whatever subsets of the ids
\* the Classification and Popularity lists cover; a row of a video missing
\* from a secondary source has the Collector's fields and none of that source.
C1_OneRowPerCollectorId ==
    (calls >= 1 /\ DistinctIds(raw_data)) =>
        /\ Len(merged_list) = Len(raw_data)
        /\ \A id \in IdsOf(raw_data) :
               Cardinality({j \in DOMAIN merged_list :
                                merged_list[j]["video_id"] = id}) = 1
        /\ \A j \in DOMAIN merged_list :
               LET id == merged_list[j]["video_id"] IN
               /\ id \in IdsOf(raw_data)
               /\ FieldsFor(raw_data, id) \subseteq DOMAIN merged_list[j]
               /\ DOMAIN merged_list[j] \subseteq
                      FieldsFor(raw_data, id) \cup FieldsFor(gemini_data, id)
                          \cup FieldsFor(multi_data, id)

\* two distinct videos, the Classification covering only one and the
\* Popularity only the other, merged
C1_Witness ==
    /\ calls >= 1
    /\ Len(raw_data) = 2
    /\ DistinctIds(raw_data)
    /\ IdsOf(gemini_data) = {raw_data[1]["video_id"]}
    /\ IdsOf(multi_data) = {raw_data[2]["video_id"]}

\* C2: every field of every merged record has the Popularity record's value
\* if that record has the field, else the Classification record's value if it
\* has the field, else the Collector record's value, and the merged record
\* has no other field.
C2_Precedence ==
    calls >= 1 =>
        /\ Len(merged_list) = Len(raw_data)
        /\ \A i \in DOMAIN raw_data :
               LET rec == raw_data[i]
                   id == rec["video_id"]
                   hasG == id \in IdsOf(gemini_data)
                   hasM == id \in IdsOf(multi_data)
                   G == IF hasG THEN RecordFor(gemini_data, id) ELSE EmptyDict
                   M == IF hasM THEN RecordFor(multi_data, id) ELSE EmptyDict
               IN  /\ DOMAIN merged_list[i] = DOMAIN rec \cup DOMAIN G \cup DOMAIN M
                   /\ \A f \in DOMAIN merged_list[i] :
                          merged_list[i][f] =
                              IF f \in DOMAIN M THEN M[f]
                              ELSE IF f \in DOMAIN G THEN G[f]
                              ELSE rec[f]

\* a video whose youtube_views is held by all three sources and whose title
\* by the Collector and the Classification, merged
C2_Witness ==
    /\ calls >= 1
    /\ \E i \in DOMAIN raw_data :
           LET id == raw_data[i]["video_id"] IN
           /\ id \in IdsOf(gemini_data)
           /\ id \in IdsOf(multi_data)
           /\ "youtube_views" \in DOMAIN RecordFor(gemini_data, id)
           /\ "youtube_views" \in DOMAIN RecordFor(multi_data, id)
           /\ merged_list[i]["youtube_views"] = "multi_views"
           /\ merged_list[i]["title"] = "gemini_title"

\* C3: the i-th merged record has the video_id of the i-th Collector record,
\* whatever the order of the Classification and Popularity lists.
C3_CollectorOrder ==
    calls >= 1 =>
        /\ Len(merged_list) = Len(raw_data)
        /\ \A i \in DOMAIN raw_data :
               merged_list[i]["video_id"] = raw_data[i]["video_id"]

\* two distinct videos, both secondary lists in the opposite order, merged
C3_Witness ==
    /\ calls >= 1
    /\ Len(raw_data) = 2 /\ Len(gemini_data) = 2 /\ Len(multi_data) = 2
    /\ DistinctIds(raw_data)
    /\ gemini_data[1]["video_id"] = raw_data[2]["video_id"]
    /\ gemini_data[2]["video_id"] = raw_data[1]["video_id"]
    /\ multi_data[1]["video_id"] = raw_data[2]["video_id"]
    /\ multi_data[2]["video_id"] = raw_data[1]["video_id"]

ScoreCalled == normalized_score.exc # "not called"

\* both arguments of calculate_popularity_score parse as integers
BothParse == int(youtube_views).exc = "none" /\ int(streaming_count).exc = "none"

ParsedViews == int(youtube_views).val
ParsedStreams == int(streaming_count).val

\* C5: calculate_popularity_score returns exactly 1.0 whenever the view
\* count and the stream count both parse to 0.
C5_BothZeroGivesOne ==
    (ScoreCalled /\ BothParse /\ ParsedViews = 0 /\ ParsedStreams = 0) =>
        (normalized_score.exc = "none" /\ normalized_score.val = One)

\* calculate_popularity_score("00", 0) has returned
C5_Witness ==
    /\ op = "calculate_popularity_score"
    /\ youtube_views = PyStr(<<"0", "0">>)
    /\ streaming_count = PyInt(0)
    /\ normalized_score = Returned(One)

\* C6: calculate_popularity_score returns exactly 0.0 whenever exactly one of
\* (views, streams) is 0 and the other is greater than 0.
C6_OneZeroGivesZero ==
    (ScoreCalled /\ BothParse /\
     ((ParsedViews = 0 /\ ParsedStreams > 0) \/ (ParsedViews > 0 /\ ParsedStreams = 0))) =>
        (normalized_score.exc = "none" /\ normalized_score.val = Zero)

\* process_single_video_popularity of a video with views and no streaming
\* match has scored it 0.0
C6_Witness ==
    /\ op = "process_single_video_popularity"
    /\ BothParse
    /\ ParsedViews > 0
    /\ ParsedStreams = 0
    /\ normalized_score = Returned(Zero)

\* C7: for views > 0 and streams > 0 calculate_popularity_score returns
\* min(views, streams) / max(views, streams), which lies in (0, 1], is 1
\* exactly when views = streams, and is what the call with the two arguments
\* swapped returns.
C7_SymmetricRatio ==
    (ScoreCalled /\ BothParse /\ ParsedViews > 0 /\ ParsedStreams > 0) =>
        /\ normalized_score.exc = "none"
        /\ LET x == normalized_score.val
               lo == IF ParsedViews <= ParsedStreams THEN ParsedViews ELSE ParsedStreams
               hi == IF ParsedViews <= ParsedStreams THEN ParsedStreams ELSE ParsedViews
           IN  /\ x.den > 0
               /\ x.num * (hi \div x.den) = lo
               /\ hi % x.den = 0
               /\ 0 < x.num
               /\ x.num <= x.den
               /\ (x = One) <=> (ParsedViews = ParsedStreams)
        /\ calculate_popularity_score(streaming_count, youtube_views) = normalized_score

\* more views than streams, both positive, scored strictly between 0 and 1
C7_Witness ==
    /\ ScoreCalled
    /\ BothParse
    /\ ParsedViews > ParsedStreams
    /\ ParsedStreams > 0
    /\ normalized_score.exc = "none"
    /\ normalized_score.val = Float(ParsedStreams, ParsedViews)
    /\ normalized_score.val # One

\* C8: the popularity_flag process_single_video_popularity returns is 1 if
\* the score it computed is >= 0.5 and 0 otherwise; a score of exactly 0.5
\* gives 1.
C8_FlagThreshold ==
    (op = "process_single_video_popularity" /\ score_data.exc = "none") =>
        /\ normalized_score.exc = "none"
        /\ LET x == normalized_score.val
               flag == score_data.val["popularity_flag"]
           IN  /\ flag \in {0, 1}
               /\ (flag = 1) <=> (2 * x.num >= x.den)

\* views = 2 * streams: the score is exactly 0.5 and the flag is 1
C8_Witness ==
    /\ op = "process_single_video_popularity"
    /\ score_data.exc = "none"
    /\ BothParse
    /\ ParsedViews = 2 * ParsedStreams
    /\ ParsedStreams > 0
    /\ normalized_score.val = Half
    /\ score_data.val["popularity_flag"] = 1

\* get_best_streaming_count was called, by itself or by
\* process_single_video_popularity
BestCalled == best_streams.exc # "not called"

\* the platform's signal is in the match and is an integer
HasInt(d, key) == key \in DOMAIN d /\ d[key].t = "int"

\* the platform's signal is an integer greater than 0
Positive(d, key) == HasInt(d, key) /\ d[key].n > 0

\* the platform has no match, no signal in it, or an integer signal
AbsentOrInt(d, key) == key \notin DOMAIN d \/ d[key].t = "int"

\* C9: when the Spotify popularity and the Deezer rank are both present and
\* positive, get_best_streaming_count returns
\* (max(popularity * 1000000, rank), "Combined").
C9_CombinedMax ==
    (BestCalled /\ Positive(spotify_data, "popularity") /\ Positive(deezer_data, "rank")) =>
        /\ best_streams.exc = "none"
        /\ LET scaled == spotify_data["popularity"].n * 1000000
               rank == deezer_data["rank"].n
           IN  /\ best_streams.val.count = IF scaled >= rank THEN scaled ELSE rank
               /\ best_streams.val.count >= scaled
               /\ best_streams.val.count >= rank
        /\ best_streams.val.platform = "Combined"

\* get_best_streaming_count({"popularity": 80}, {"rank": 50000000}) has
\* returned (80000000, "Combined")
C9_Witness ==
    /\ op = "get_best_streaming_count"
    /\ spotify_data = [popularity |-> PyInt(80)]
    /\ deezer_data = [rank |-> PyInt(50000000)]
    /\ best_streams = Returned([count |-> 80000000, platform |-> "Combined"])

EntriesFor(list, id) ==
    {list[i] : i \in {j \in DOMAIN list : list[j]["youtube_video_id"] = id}}

\* every signal in the two lists is a number
NumericSignals ==
    /\ \A i \in DOMAIN spotify_list :
           spotify_list[i]["spotify_data"]["popularity"].t = "int"
    /\ \A i \in DOMAIN deezer_list :
           deezer_list[i]["deezer_data"]["rank"].t = "int"

InUnitInterval(x) == FloatGE(x, Zero) /\ FloatGE(One, x)

\* C12 as stated: for an argument that does not parse as an integer (a
\* non-numeric string, or None) calculate_popularity_score does not raise
\* and the score is 0.0.
C12_UnparseableGivesZero ==
    (ScoreCalled /\ ~BothParse) => normalized_score = Returned(Zero)

\* C13 as stated: for every pair of arguments that parse as integers,
\* calculate_popularity_score returns a value in [0, 1].
C13_ParseableInUnitInterval ==
    (ScoreCalled /\ BothParse) =>
        (normalized_score.exc = "none" /\ InUnitInterval(normalized_score.val))

\* process_single_video_popularity returned a record
RecordBuilt == op = "process_single_video_popularity" /\ score_data.exc = "none"

\* C13, amended: for every pair of arguments that parse as integers that are
\* not negative, calculate_popularity_score returns a value in [0, 1]; so
\* every PopularityRecord that process_single_video_popularity builds for a
\* view count that is not negative has normalized_score in [0, 1].
C13_NonNegativeInUnitInterval ==
    /\ (ScoreCalled /\ BothParse /\ ParsedViews >= 0 /\ ParsedStreams >= 0) =>
           (normalized_score.exc = "none" /\ InUnitInterval(normalized_score.val))
    /\ (RecordBuilt /\ (int(youtube_views).exc = "none" => int(youtube_views).val >= 0)) =>
           InUnitInterval(score_data.val.normalized_score)

\* a call with two different positive counts: the score lies strictly
\* between 0 and 1
C13_Witness ==
    /\ op = "calculate_popularity_score"
    /\ BothParse
    /\ ParsedViews = 4 /\ ParsedStreams = 3
    /\ normalized_score = Returned(Float(3, 4))

\* ------------------------------------------- claims about the Classifier

\* the LLM call of the i-th video gave parsed JSON
ParsedReply(i) == gemini_replies[i].exc = "none" /\ gemini_replies[i].val.exc = "none"

\* the parsed JSON of the i-th reply
ReplyData(i) == gemini_replies[i].val.val

\* the i-th reply is an object, or a one-element array wrapping an object
ObjectOrWrapped(i) ==
    /\ ParsedReply(i)
    /\ \/ ReplyData(i).t = "dict"
       \/ /\ ReplyData(i).t = "list"
          /\ Len(ReplyData(i).elems) = 1
          /\ ReplyData(i).elems[1].t = "dict"

\* C14 as stated: whether the LLM answers with an object or with a
\* one-element array wrapping it, the record analyze_single_video returns
\* has a sega_genre that is neither "Unknown" nor missing nor empty.
C14_NeverUnknownGenre ==
    \A i \in DOMAIN final_results :
        ObjectOrWrapped(i) =>
            LET rec == final_results[i]
            IN  /\ rec.t = "dict"
                /\ "sega_genre" \in DOMAIN rec.items
                /\ rec.items["sega_genre"] # UnknownGenre
                /\ Truthy(rec.items["sega_genre"])

\* the LLM call of the i-th video failed: it raised, its text was no JSON,
\* or the JSON was an empty array
FailedReply(i) ==
    \/ ~ParsedReply(i)
    \/ ReplyData(i) = PyList(<<>>)

\* the default record of a video
IsDefaultRecord(rec, id) ==
    /\ rec.t = "dict"
    /\ DOMAIN rec.items = {"video_id", "sentiment_flag", "emotional_genre",
                           "sega_genre", "gemini_confidence_score",
                           "comment_density_rating"}
    /\ rec.items["video_id"] = id
    /\ rec.items["sentiment_flag"] = PyInt(0)
    /\ rec.items["emotional_genre"] = ErrorLabel
    /\ rec.items["sega_genre"] = NotSega
    /\ rec.items["gemini_confidence_score"] = PyFloat(Zero)
    /\ rec.items["comment_density_rating"] = LowRating

\* C15: run_gemini_processing returns exactly one record per input video, in
\* input order (the i-th record is made from the i-th video's reply); when
\* the LLM call or the JSON parsing of a video fails (an exception, or an
\* empty array) the video's record is the default with the video's own id,
\* and the loop goes on to the next video.
C15_OnePerVideoDefaultOnFailure ==
    /\ gemini_pc \in {"analyzing", "returned"}
    /\ Len(final_results) = Len(gemini_replies)
    /\ Len(final_results) <= Len(scraped_data)
    /\ gemini_pc = "returned" => Len(final_results) = Len(scraped_data)
    /\ \A i \in DOMAIN final_results :
           /\ FailedReply(i) =>
                  IsDefaultRecord(final_results[i], scraped_data[i]["video_id"])
           /\ (ParsedReply(i) /\ ReplyData(i).t = "dict") =>
                  /\ final_results[i].t = "dict"
                  /\ \A k \in DOMAIN ReplyData(i).items \ {"sega_genre"} :
                         /\ k \in DOMAIN final_results[i].items
                         /\ final_results[i].items[k] = ReplyData(i).items[k]

\* a run over two videos that returned: the first video's call raised, the
\* second video's reply was an object
C15_Witness ==
    /\ gemini_pc = "returned"
    /\ Len(scraped_data) = 2
    /\ scraped_data[1]["video_id"] = "v2"
    /\ gemini_replies[1] = Raised("ClientError")
    /\ IsDefaultRecord(final_results[1], "v2")
    /\ ParsedReply(2) /\ ReplyData(2).t = "dict"
    /\ ~IsDefaultRecord(final_results[2], scraped_data[2]["video_id"])

\* --------------------------------------- claims about main and its tasks

\* C16: join-all ordering.  Under every interleaving, main() takes a task's
\* result only from a future whose task has returned, and merge_data starts
\* only after both run_gemini_processing and run_multiplatform_analysis have
\* returned; run_multiplatform_analysis takes a matcher's result only from
\* a future whose task has returned, and its scoring loop starts only after
\* both run_spotify_analysis and run_deezer_analysis have returned.
C16_JoinAll ==
    /\ "gemini" \in main_results => future_gemini = "returned"
    /\ "multi" \in main_results => future_multi = "returned"
    /\ (main_pc = "merge_data" \/ "merge_data" \in executed) =>
           /\ future_gemini = "returned" /\ future_multi = "returned"
           /\ gemini_progress = n_videos /\ scored = n_videos
           /\ main_results = {"gemini", "multi"}
    /\ "spotify" \in multi_results => future_spotify = "returned"
    /\ "deezer" \in multi_results => future_deezer = "returned"
    /\ (multi_step = "scoring" \/ scored > 0) =>
           /\ future_spotify = "returned" /\ future_deezer = "returned"
           /\ spotify_progress = n_videos /\ deezer_progress = n_videos
           /\ multi_results = {"spotify", "deezer"}

\* merge_data has run over the results of two videos
C16_Witness ==
    /\ main_pc = "display_terminal_table"
    /\ "merge_data" \in executed
    /\ n_videos = 2
    /\ main_results = {"gemini", "multi"}
    /\ multi_results = {"spotify", "deezer"}
    /\ scored = 2

\* one of the four tasks raised
TaskRaised ==
    \E f \in {future_gemini, future_multi, future_spotify, future_deezer} :
        f \notin {"none", "running", "returned"}

\* main() has ended
MainEnded == main_pc \in {"config_error", "aborted", "exited", "finished"}

\* C17: once run_gemini_processing, run_multiplatform_analysis or one of the
\* two matcher jobs has raised, main() never starts merge_data, the summary
\* table or insert_analysis_results, and when it ends it ends with the
\* exception: the run is aborted and nothing is persisted.
C17_TaskErrorAborts ==
    TaskRaised =>
        /\ executed = {}
        /\ main_pc \in {"submit_multi", "join_gemini", "join_multi", "shutdown",
                       "aborted"}
        /\ MainEnded => (main_pc = "aborted" /\ main_exc # "none")

\* the Spotify job raised while the Classifier returned: main() ended with
\* the exception and ran none of the later steps
C17_Witness ==
    /\ main_pc = "aborted"
    /\ future_spotify = "AttributeError"
    /\ future_multi = "AttributeError"
    /\ main_exc = "AttributeError"
    /\ future_gemini = "returned"
    /\ future_deezer = "returned"
    /\ executed = {}

\* C18 as stated: except for a configuration error at startup, every run of
\* main() completes: it reaches persistence and the final message, and no
\* failure of an external call aborts it.  (A run that scraped nothing and
\* so has nothing to persist is not counted against the claim.)
C18_RunAlwaysCompletes ==
    (MainEnded /\ main_pc # "config_error") =>
        \/ main_pc = "exited"
        \/ /\ main_pc = "finished"
           /\ {"insert_analysis_results", "final_message"} \subseteq executed

\* --------------------------------------- claims about the Persistence Sink

\* the three coercions of a merged record succeed
Convertible(item) ==
    /\ float(DictGet(item, "gemini_confidence_score", PyFloat(Zero))).exc = "none"
    /\ float(DictGet(item, "normalized_score", PyFloat(Zero))).exc = "none"
    /\ int(DictGet(item, "youtube_views", PyInt(0))).exc = "none"

\* insert_analysis_results has sent an insert
InsertSent == db_outcomes # <<>> /\ db_outcomes[Len(db_outcomes)] # "no call"

\* C19: for any batch, insert_analysis_results skips exactly the records
\* one of whose coercions fails; every other record is sent in the one
\* insert, in the original order, with popularity_flag under the name
\* multianalysis_flag; the call returns whatever the records are.
C19_SkipsOnlyFailedRecords ==
    InsertSent =>
        LET kept == SelectSeq(data_list, Convertible)
        IN  /\ Len(records_to_insert) = Len(kept)
            /\ \A k \in DOMAIN records_to_insert :
                   LET rec == records_to_insert[k]
                   IN  /\ rec.video_id = kept[k]["video_id"]
                       /\ "popularity_flag" \notin DOMAIN rec
                       /\ rec.multianalysis_flag =
                              DictGet(kept[k], "popularity_flag", PyInt(0))
                       /\ rec.gemini_confidence_score.t = "float"
                       /\ rec.normalized_score.t = "float"
                       /\ rec.youtube_views.t = "int"
            /\ db_outcomes[Len(db_outcomes)] = "inserted" =>
                   inserted_count = Len(kept)

\* a batch of two whose first record fails a coercion: the second is sent
C19_Witness ==
    /\ InsertSent
    /\ Len(data_list) = 2
    /\ ~Convertible(data_list[1])
    /\ Convertible(data_list[2])
    /\ Len(records_to_insert) = 1
    /\ records_to_insert[1].video_id = data_list[2]["video_id"]
    /\ records_to_insert[1].multianalysis_flag = PyInt(1)
    /\ Len(db_table) = 1

\* the rows of the table that carry the id
RowsFor(id) == {i \in DOMAIN db_table : db_table[i].video_id = id}

\* two runs have persisted the same records, which convert and have
\* distinct ids, and the table took the first run's rows
PersistedTwice ==
    /\ Len(db_outcomes) = 2
    /\ data_list # <<>>
    /\ \A i \in DOMAIN data_list : Convertible(data_list[i])
    /\ \A i, j \in DOMAIN data_list :
           data_list[i]["video_id"] = data_list[j]["video_id"] => i = j
    /\ db_outcomes[1] \in {"inserted", "no_data"}

\* C20 as stated: the sink writes by upsert keyed on video_id: after the
\* same MergedRecords were persisted in two successive runs, the second
\* write was not rejected and the table holds exactly one row per video_id.
C20_UpsertByVideoId ==
    PersistedTwice =>
        /\ db_outcomes[2] # "rejected"
        /\ \A i \in DOMAIN data_list :
               Cardinality(RowsFor(data_list[i]["video_id"])) = 1

\* ------------------------------------------------ claims about download.main

\* the step is a call of download_audio_for_video that raised
FailedCallStep ==
    /\ download_calls' = download_calls + 1
    /\ downloaded_this_run' = downloaded_this_run

\* the message of the call just made names the status code or the phrase
MessageTellsRateLimit ==
    \/ \E i \in DOMAIN dl_msg' : dl_msg'[i] = "429"
    \/ \E i \in DOMAIN dl_msg' :
           /\ i + 2 <= Len(dl_msg')
           /\ dl_msg'[i] = "Too" /\ dl_msg'[i + 1] = "Many"
           /\ dl_msg'[i + 2] = "Requests"

\* C21: once a download has failed with a message that contains "429" or
\* "Too Many Requests", the run makes no further call and takes no further
\* row; a download that fails with another message leaves the loop running.
C21_RateLimitStopsRun ==
    [][ /\ (FailedCallStep /\ MessageTellsRateLimit) => dl_pc' = "rate_limited"
        /\ (FailedCallStep /\ ~MessageTellsRateLimit) => dl_pc' = "loop"
        /\ dl_pc = "rate_limited" =>
               /\ download_calls' = download_calls
               /\ dl_rows' = dl_rows
               /\ dl_pc' = "rate_limited" ]_vars

\* a run stopped by rate limiting at its third call, after a download that
\* failed with another message and one that succeeded
C21_Witness ==
    /\ dl_pc = "rate_limited"
    /\ dl_msg = <<"Too", "Many", "Requests">>
    /\ download_calls = 3
    /\ downloaded_this_run = 1

\* C25 as stated: in one run download_audio_for_video is called at most
\* MAX_DOWNLOADS_PER_RUN times, whatever the mix of downloads that succeed,
\* downloads that fail and rows that are skipped.
C25_CallsCapped == download_calls <= MAX_DOWNLOADS_PER_RUN

\* ---------------------------------------------------- claims about startup
\* Settings whose absence raises before the Collector starts
FatalSettings ==
    { "YOUTUBE_API_KEY", "GEMINI_API_KEY", "SUPABASE_URL", "SUPABASE_KEY",
      "config.yml" }

\* the run went past the startup checks
RunProceeded ==
    \/ st_pc \in {"scrape", "fan_out", "done"}
    \/ work_done # {}
    \/ st_tasks # {}

\* C22 (as stated): with any required credential or config.yml missing,
\* Spotify's client id and secret included, the run fails at startup: no
\* Collector, Classifier or Matcher work is performed and no run proceeds.
C22_AnyMissingSettingIsFatal ==
    (Settings \ environment # {}) => ~RunProceeded

\* C22 (amended): with the YouTube key, the Gemini key, the database URL or
\* key, or config.yml missing, the run never goes past startup and no
\* component issues a request; with a Spotify credential missing the Spotify
\* analysis issues no request, and the run is not stopped by it.
C22_FatalSettingsStopStartup ==
    /\ (FatalSettings \ environment # {}) => ~RunProceeded
    /\ ({"SPOTIFY_CLIENT_ID", "SPOTIFY_CLIENT_SECRET"} \ environment # {})
           => "Spotify" \notin work_done
    /\ st_pc = "failed" => /\ FatalSettings \ environment # {}
                           /\ st_exc \in {"ValueError", "FileNotFoundError"}

\* config.yml alone is missing: the run has ended in get_config
C22_Witness ==
    /\ environment = Settings \ {"config.yml"}
    /\ st_pc = "failed"
    /\ st_exc = "FileNotFoundError"
    /\ work_done = {}

\* the Spotify client id alone is missing: the run has completed without it
C22_SpotifySkipped ==
    /\ environment = Settings \ {"SPOTIFY_CLIENT_ID"}
    /\ st_pc = "done"
    /\ work_done = {"Collector", "Classifier", "Deezer"}

\* ------------------------------------------------ claims about the fan-out
\* C23: no branch mutates the shared input.  In every state of every
\* interleaving the list the branches are handed equals the list the
\* Collector returned, record by record, and each result list holds exactly
\* what its own loop has appended so far (one analysis or score per video
\* passed, at most one match per video passed).
C23_SharedInputUnchanged ==
    /\ fan_raw_video_data = collected
    /\ Len(fan_gemini_results) = fan_cursor.gemini - 1
    /\ Len(fan_popularity_data) = fan_cursor.scoring - 1
    /\ Len(fan_spotify_results) <= fan_cursor.spotify - 1
    /\ Len(fan_deezer_results) <= fan_cursor.deezer - 1

\* both results are in after all four loops ran over two videos, with a
\* match on each platform
C23_Witness ==
    /\ fan_pc = "joined"
    /\ Len(collected) = 2
    /\ Len(fan_gemini_results) = 2
    /\ Len(fan_popularity_data) = 2
    /\ fan_spotify_results # <<>>
    /\ fan_deezer_results # <<>>
    /\ fan_raw_video_data = collected

\* --------------------------------------------- claims about search_spotify
\* the order the queries are to be tried in for a channel name whose words
\* are all stop words or hyphens, and for any other
FixedOrder ==
    IF \A k \in 1..Len(channel_name) :
           channel_name[k] \in ChannelStopWords \cup {"-"}
    THEN <<"title_only">>
    ELSE <<"fielded", "free_text", "title_only">>

\* C24: search_spotify tries its queries in the fixed order fielded
\* track+artist, free-text title+artist, title-only (title-only alone when
\* the cleaned channel name is empty).  Every query sent before the last one
\* raised or had no items; a track is returned exactly when the last query
\* sent had items, and it is that query's top track; None is returned only
\* after every query of the order failed, or, with no token, without any
\* query sent.
C24_FirstHitInFixedOrder ==
    /\ Len(issued) <= Len(FixedOrder)
    /\ issued = SubSeq(FixedOrder, 1, Len(issued))
    /\ \A k \in 1..(Len(issued) - 1) : responses[issued[k]] # "items"
    /\ token = "" => issued = <<>>
    /\ (search_pc = "returned" /\ token = "") => search_result = "None"
    /\ (search_pc = "returned" /\ token # "") =>
           /\ issued # <<>>
           /\ IF responses[issued[Len(issued)]] = "items"
              THEN search_result = TopTrack(issued[Len(issued)])
              ELSE /\ search_result = "None"
                   /\ issued = FixedOrder

\* the fielded query raised, the free-text query gave the track
C24_Witness ==
    /\ search_pc = "returned"
    /\ channel_name = <<"ras", "natty", "official">>
    /\ responses["fielded"] = "raises"
    /\ issued = <<"fielded", "free_text">>
    /\ search_result = TopTrack("free_text")

\* ------------------------------------ claims about the PopularityRecord
\* C26: in every PopularityRecord, popularity_flag is 1 exactly when the
\* stored normalized_score, the score rounded to 4 decimals, is >= 0.5.
C26_FlagMatchesStoredScore ==
    RecordBuilt =>
        (score_data.val.popularity_flag = 1
            <=> FloatGE(score_data.val.normalized_score, Half))

\* C27: in every PopularityRecord, youtube_views is the integer-parsed view
\* count, never the platform's string form.
C27_ViewsStoredAsInteger ==
    RecordBuilt => score_data.val.youtube_views.t = "int"

\* ------------------------------- claims about duplicate ids in the merge
\* C28: merge_data yields exactly one MergedRecord per distinct video_id of
\* the Collector's list, also when the list holds a video_id more than once.
C28_OnePerDistinctVideoId ==
    calls > 0 =>
        \A i \in DOMAIN raw_data :
            Cardinality({j \in DOMAIN merged_list :
                            merged_list[j]["video_id"] = raw_data[i]["video_id"]}) = 1

\* ------------------------- claims about the ids of classification records
\* C29: the i-th record run_gemini_processing returns is an object with a
\* video_id key that holds the i-th input video's id, whatever the LLM
\* answered.
C29_RecordCarriesInputVideoId ==
    \A i \in DOMAIN final_results :
        /\ final_results[i].t = "dict"
        /\ "video_id" \in DOMAIN final_results[i].items
        /\ final_results[i].items["video_id"] = scraped_data[i]["video_id"]

\* ---------------------------------- claims about malformed match records
\* C30: a match whose popularity or rank is null or missing counts as zero:
\* the scoring loop of run_multiplatform_analysis is never left by an
\* exception, and once it has returned there is a PopularityRecord for
\* every video.
C30_NullSignalNeverAborts ==
    /\ multi_pc \in {"scoring", "returned"}
    /\ multi_pc = "returned" => Len(final_popularity_data) = Len(raw_video_data)

====
